---- MODULE Spec2Model ----
(***************************************************************************)
(* A model of pyslirp's protocol core (src/pySLiRP.py): the PPP LCP/IPCP   *)
(* negotiator, the bridge's serial reader, the TCP state machine, the      *)
(* timer manager and the service proxy; and of the client port forwarder   *)
(* (src/tcp_forwarder.py).                                                 *)
(*                                                                         *)
(* Handlers are pure operators from (state, input) to (state, output);     *)
(* the actions of the specifications apply them.  The specifications:      *)
(*   Spec     the host bridge from start-up: negotiation, then one short   *)
(*            TCP exchange                                                 *)
(*   SpecTCP  the host bridge once negotiated, fed TCP segments            *)
(*   SpecPPP  the host bridge fed control packets only                     *)
(*   SpecNeg  a client-role and a server-role negotiator joined by a       *)
(*            lossless in-order link                                       *)
(*   SpecSum  as SpecTCP, with segments whose checksums are wrong          *)
(*   SpecFrame  the frame encoder feeding the frame decoder over a line    *)
(*            that delivers the octets in chunks                           *)
(*   SpecProxy  the bidirectional forwarding tasks of one established flow *)
(*   SpecFwd  the client port forwarder with one local client              *)
(*   SpecPorts  the forwarder's synthetic port allocator                   *)
(*   SpecCtl  a negotiator of either role fed control packets with any     *)
(*            option list                                                  *)
(*   SpecTW   the TCP stack from FIN_WAIT_2, with the timer manager        *)
(*   SpecCC   the TCP stack with an ESTABLISHED connection sending data    *)
(*   SpecConc  the negotiated host bridge with its tasks interleaved at    *)
(*            their suspension points                                      *)
(*   SpecWrap  the negotiated host bridge and a peer whose sequence        *)
(*            numbers are about to pass 2^32                               *)
(***************************************************************************)
EXTENDS Integers, Sequences, FiniteSets, TLC

\* ------------------------------------------------------------------------
\* Protocol numbers and codes (class PPPProtocol, PPPCode, LCPOption,
\* IPCPOption)
\* ------------------------------------------------------------------------
PPP_IP == 33
PPP_IPCP == 32801
PPP_LCP == 49185

CONFIGURE_REQUEST == 1
CONFIGURE_ACK == 2
CONFIGURE_NAK == 3
CONFIGURE_REJECT == 4
ECHO_REQUEST == 9
ECHO_REPLY == 10

LCP_MRU == 1
LCP_AUTH_PROTOCOL == 3
LCP_MAGIC_NUMBER == 5
LCP_PROTOCOL_COMPRESSION == 7
LCP_ADDR_CONTROL_COMPRESSION == 8

IPCP_IP_COMPRESSION == 2
IPCP_IP_ADDRESS == 3
IPCP_PRIMARY_DNS == 129
IPCP_SECONDARY_DNS == 131

\* AsyncPPPNegotiator.__init__ timing parameters (seconds) and limits
echo_interval == 30
restart_timer == 3
max_configure == 10
negotiation_timeout == 10
DefaultMRU == 1500
MinMRU == 68

\* Addresses (AsyncPPPBridge.__init__ defaults 10.0.0.1 and 10.0.0.2), named by
\* their last octet
HostIP == 1
ClientIP == 2

\* ------------------------------------------------------------------------
\* Bounds of the model
\* ------------------------------------------------------------------------
\* time.time() when the session starts, in seconds; the code compares it with
\* last_echo_time = 0.0, so any value above echo_interval behaves the same
StartTime == 100
\* keepalive ticks (one per second) the model follows, with IP traffic ...
MaxTicks == 1
\* ... and with control traffic only
MaxPppTicks == 11
\* largest Configure-Request / Echo identifier the model follows
MaxIdent == 2

NoPacket == [proto |-> 0, none |-> TRUE]

\* ------------------------------------------------------------------------
\* PPP control packets, as parse_ppp_packet returns them: protocol, code,
\* identifier and the option list parse_config_options yields.  An option is
\* [type, length, val]; len(opt.data) is length - 2.
\* ------------------------------------------------------------------------
Opt(t, l, v) == [type |-> t, length |-> l, val |-> v]

DataLen(opt) == opt.length - 2

create_ppp_packet(protocol, code, identifier, data) ==
    [proto |-> protocol, code |-> code, id |-> identifier, data |-> data]

get_next_identifier(ident) == (ident + 1) % 256

\* ------------------------------------------------------------------------
\* AsyncPPPNegotiator
\* ------------------------------------------------------------------------
NewNegotiator(local, remote, server, magic) ==
    [ is_server              |-> server,
      lcp_state              |-> "INITIAL",
      ipcp_state             |-> "INITIAL",
      local_ip               |-> local,
      remote_ip              |-> remote,
      magic_number           |-> magic,
      peer_magic_number      |-> 0,
      mru                    |-> DefaultMRU,
      peer_mru               |-> DefaultMRU,
      lcp_identifier         |-> 0,
      ipcp_identifier        |-> 0,
      last_echo_time         |-> 0,
      negotiation_start_time |-> 0,
      awaiting_response      |-> {},
      negotiation_initiated  |-> FALSE ]

\* awaiting_response[key] = time: a dict, so a key is held once
SetAwaiting(aw, key, now) ==
    {e \in aw : e.key # key} \cup {[key |-> key, t |-> now]}

Awaits(n, key) == \E e \in n.awaiting_response : e.key = key

DelAwaiting(aw, key) == {e \in aw : e.key # key}

\* The result of a handler: the negotiator afterwards and the packets put on
\* the wire, in wire order.
Res(n, out) == [n |-> n, out |-> out]

send_lcp_configure_request(n, now) ==
    LET ident == get_next_identifier(n.lcp_identifier)
        options == << Opt(LCP_MAGIC_NUMBER, 6, n.magic_number),
                      Opt(LCP_MRU, 4, n.mru),
                      Opt(LCP_ADDR_CONTROL_COMPRESSION, 2, 0),
                      Opt(LCP_PROTOCOL_COMPRESSION, 2, 0) >>
    IN Res([n EXCEPT !.lcp_identifier = ident,
                     !.lcp_state = "REQUEST_SENT",
                     !.awaiting_response =
                          SetAwaiting(@, <<"lcp", ident>>, now)],
           << create_ppp_packet(PPP_LCP, CONFIGURE_REQUEST, ident, options) >>)

send_ipcp_configure_request(n, now) ==
    LET ident == get_next_identifier(n.ipcp_identifier)
        options == << Opt(IPCP_IP_ADDRESS, 6, n.local_ip) >>
    IN Res([n EXCEPT !.ipcp_identifier = ident,
                     !.ipcp_state = "REQUEST_SENT",
                     !.awaiting_response =
                          SetAwaiting(@, <<"ipcp", ident>>, now)],
           << create_ppp_packet(PPP_IPCP, CONFIGURE_REQUEST, ident, options) >>)

\* The option loop of handle_lcp_configure_request: acc is
\* [code, opts, peer_magic, peer_mru]; rnd is random.randint's value.
LcpOptionStep(acc, opt, magic, rnd) ==
    IF opt.type = LCP_MAGIC_NUMBER THEN
        IF DataLen(opt) = 4 THEN
            IF opt.val = magic
            THEN [acc EXCEPT !.peer_magic = opt.val,
                             !.code = CONFIGURE_NAK,
                             !.opts = Append(@, Opt(opt.type, opt.length, rnd))]
            ELSE [acc EXCEPT !.peer_magic = opt.val,
                             !.opts = Append(@, opt)]
        ELSE [acc EXCEPT !.code = CONFIGURE_REJECT, !.opts = Append(@, opt)]
    ELSE IF opt.type = LCP_MRU THEN
        IF DataLen(opt) = 2 THEN
            IF opt.val >= MinMRU
            THEN [acc EXCEPT !.peer_mru = opt.val, !.opts = Append(@, opt)]
            ELSE [acc EXCEPT !.code = CONFIGURE_NAK,
                             !.opts = Append(@, Opt(opt.type, opt.length,
                                                    DefaultMRU))]
        ELSE [acc EXCEPT !.code = CONFIGURE_REJECT, !.opts = Append(@, opt)]
    ELSE IF opt.type \in {LCP_ADDR_CONTROL_COMPRESSION,
                          LCP_PROTOCOL_COMPRESSION} THEN
        [acc EXCEPT !.opts = Append(@, opt)]
    ELSE \* AUTH_PROTOCOL and every unknown option
        [acc EXCEPT !.code = CONFIGURE_REJECT, !.opts = Append(@, opt)]

RECURSIVE LcpOptionLoop(_, _, _, _)
LcpOptionLoop(acc, options, magic, rnd) ==
    IF options = << >> THEN acc
    ELSE LcpOptionLoop(LcpOptionStep(acc, Head(options), magic, rnd),
                       Tail(options), magic, rnd)

handle_lcp_configure_request(n, packet, now, rnd) ==
    LET first == n.is_server /\ ~n.negotiation_initiated
                             /\ n.lcp_state = "STARTING"
        sent  == IF first
                 THEN send_lcp_configure_request(
                          [n EXCEPT !.negotiation_initiated = TRUE], now)
                 ELSE Res(n, << >>)
        n1    == sent.n
        acc   == LcpOptionLoop([code |-> CONFIGURE_ACK, opts |-> << >>,
                                peer_magic |-> n1.peer_magic_number,
                                peer_mru |-> n1.peer_mru],
                               packet.data, n1.magic_number, rnd)
        st    == IF acc.code = CONFIGURE_ACK
                 THEN IF n1.lcp_state = "REQUEST_SENT" THEN "ACK_SENT"
                      ELSE IF n1.lcp_state = "ACK_RECEIVED" THEN "OPENED"
                      ELSE n1.lcp_state
                 ELSE n1.lcp_state
    IN Res([n1 EXCEPT !.peer_magic_number = acc.peer_magic,
                      !.peer_mru = acc.peer_mru,
                      !.lcp_state = st],
           sent.out \o
           << create_ppp_packet(PPP_LCP, acc.code, packet.id, acc.opts) >>)

\* A Configure-Ack handler that takes the Ack off the awaiting list and
\* leaves the LCP state alone
C5_Mutant_lcp_ack(n, packet) ==
    [n EXCEPT !.awaiting_response = DelAwaiting(@, <<"lcp", packet.id>>)]

handle_lcp_configure_ack(n, packet) ==
    IF Awaits(n, <<"lcp", packet.id>>)
    THEN [n EXCEPT !.awaiting_response = DelAwaiting(@, <<"lcp", packet.id>>),
                   !.lcp_state = IF @ = "REQUEST_SENT" THEN "ACK_RECEIVED"
                                 ELSE IF @ = "ACK_SENT" THEN "OPENED"
                                 ELSE @]
    ELSE n

RECURSIVE LcpNakLoop(_, _)
LcpNakLoop(n, options) ==
    IF options = << >> THEN n
    ELSE LET opt == Head(options)
             n1  == IF opt.type = LCP_MAGIC_NUMBER /\ DataLen(opt) = 4
                    THEN [n EXCEPT !.magic_number = opt.val]
                    ELSE IF opt.type = LCP_MRU /\ DataLen(opt) = 2
                    THEN [n EXCEPT !.mru = opt.val]
                    ELSE n
         IN LcpNakLoop(n1, Tail(options))

handle_lcp_configure_nak(n, packet) ==
    IF Awaits(n, <<"lcp", packet.id>>)
    THEN LcpNakLoop([n EXCEPT !.awaiting_response =
                                   DelAwaiting(@, <<"lcp", packet.id>>)],
                    packet.data)
    ELSE n

send_lcp_echo_request(n, now) ==
    LET ident == get_next_identifier(n.lcp_identifier)
    IN Res([n EXCEPT !.lcp_identifier = ident, !.last_echo_time = now],
           << create_ppp_packet(PPP_LCP, ECHO_REQUEST, ident,
                                << n.magic_number >>) >>)

handle_lcp_echo_request(n, packet) ==
    Res(n, << create_ppp_packet(PPP_LCP, ECHO_REPLY, packet.id,
                                << n.magic_number >>) >>)

is_lcp_opened(n) == n.lcp_state = "OPENED"

is_ipcp_opened(n) == n.ipcp_state = "OPENED"

\* A readiness test that looks at LCP only
C6_Mutant_ready(n) == is_lcp_opened(n)

is_ready_for_ip(n) == is_lcp_opened(n) /\ is_ipcp_opened(n)

needs_echo(n, now) == is_lcp_opened(n) /\ now - n.last_echo_time > echo_interval

\* The option loop of handle_ipcp_configure_request: acc is [code, opts].
IpcpOptionStep(acc, opt, remote) ==
    IF opt.type = IPCP_IP_ADDRESS THEN
        IF DataLen(opt) = 4 THEN
            IF opt.val = remote
            THEN [acc EXCEPT !.opts = Append(@, opt)]
            ELSE [acc EXCEPT !.code = CONFIGURE_NAK,
                             !.opts = Append(@, Opt(opt.type, opt.length,
                                                    remote))]
        ELSE [acc EXCEPT !.code = CONFIGURE_REJECT, !.opts = Append(@, opt)]
    ELSE \* PRIMARY_DNS, SECONDARY_DNS, IP_COMPRESSION and every unknown option
        [acc EXCEPT !.code = CONFIGURE_REJECT, !.opts = Append(@, opt)]

RECURSIVE IpcpOptionLoop(_, _, _)
IpcpOptionLoop(acc, options, remote) ==
    IF options = << >> THEN acc
    ELSE IpcpOptionLoop(IpcpOptionStep(acc, Head(options), remote),
                        Tail(options), remote)

handle_ipcp_configure_request(n, packet) ==
    LET acc == IpcpOptionLoop([code |-> CONFIGURE_ACK, opts |-> << >>],
                              packet.data, n.remote_ip)
        st  == IF acc.code = CONFIGURE_ACK
               THEN IF n.ipcp_state = "REQUEST_SENT" THEN "ACK_SENT"
                    ELSE IF n.ipcp_state = "ACK_RECEIVED" THEN "OPENED"
                    ELSE n.ipcp_state
               ELSE n.ipcp_state
    IN Res([n EXCEPT !.ipcp_state = st],
           << create_ppp_packet(PPP_IPCP, acc.code, packet.id, acc.opts) >>)

handle_ipcp_configure_ack(n, packet) ==
    IF Awaits(n, <<"ipcp", packet.id>>)
    THEN [n EXCEPT !.awaiting_response = DelAwaiting(@, <<"ipcp", packet.id>>),
                   !.ipcp_state = IF @ = "REQUEST_SENT" THEN "ACK_RECEIVED"
                                  ELSE IF @ = "ACK_SENT" THEN "OPENED"
                                  ELSE @]
    ELSE n

\* handle_ipcp_configure_nak and handle_ipcp_configure_reject only drop the
\* awaited key (the hints and the rejected options are parsed and logged)
handle_ipcp_configure_nak(n, packet) ==
    [n EXCEPT !.awaiting_response = DelAwaiting(@, <<"ipcp", packet.id>>)]

handle_ipcp_configure_reject(n, packet) ==
    [n EXCEPT !.awaiting_response = DelAwaiting(@, <<"ipcp", packet.id>>)]

handle_lcp_packet(n, packet, now, rnd) ==
    IF packet.code = CONFIGURE_REQUEST THEN
        handle_lcp_configure_request(n, packet, now, rnd)
    ELSE IF packet.code = CONFIGURE_ACK THEN
        LET n1 == handle_lcp_configure_ack(n, packet)
        IN IF is_lcp_opened(n1) /\ n1.ipcp_state = "INITIAL"
           THEN send_ipcp_configure_request(n1, now)
           ELSE Res(n1, << >>)
    ELSE IF packet.code = CONFIGURE_NAK THEN
        \* the handler returns None on both of its paths: always a retry
        send_lcp_configure_request(handle_lcp_configure_nak(n, packet), now)
    ELSE IF packet.code = ECHO_REQUEST THEN
        handle_lcp_echo_request(n, packet)
    ELSE \* ECHO_REPLY (logged) and unsupported codes
        Res(n, << >>)

handle_ipcp_packet(n, packet, now) ==
    IF ~is_lcp_opened(n) THEN Res(n, << >>)
    ELSE IF packet.code = CONFIGURE_REQUEST THEN
        handle_ipcp_configure_request(n, packet)
    ELSE IF packet.code = CONFIGURE_ACK THEN
        Res(handle_ipcp_configure_ack(n, packet), << >>)
    ELSE IF packet.code = CONFIGURE_NAK THEN
        send_ipcp_configure_request(handle_ipcp_configure_nak(n, packet), now)
    ELSE IF packet.code = CONFIGURE_REJECT THEN
        send_ipcp_configure_request(handle_ipcp_configure_reject(n, packet), now)
    ELSE Res(n, << >>)

handle_ppp_packet(n, packet, now, rnd) ==
    IF packet.proto = PPP_LCP THEN handle_lcp_packet(n, packet, now, rnd)
    ELSE IF packet.proto = PPP_IPCP THEN handle_ipcp_packet(n, packet, now)
    ELSE Res(n, << >>)

start_negotiation(n, now) ==
    LET n1 == [n EXCEPT !.negotiation_start_time = now]
    IN IF ~n1.is_server
       THEN send_lcp_configure_request(
                [n1 EXCEPT !.negotiation_initiated = TRUE], now)
       ELSE Res([n1 EXCEPT !.lcp_state = "STARTING"], << >>)

\* The host-mode timeout branch of handle_keepalive is switched off in the
\* source by a literal "and False"
HostTimeoutEnabled == FALSE

\* A keepalive pass whose host-mode timeout is in force
C12_Mutant_keepalive(n, now) ==
    IF n.is_server /\ ~n.negotiation_initiated /\ n.lcp_state = "STARTING"
       /\ now - n.negotiation_start_time > negotiation_timeout
    THEN send_lcp_configure_request(
             [n EXCEPT !.negotiation_initiated = TRUE], now)
    ELSE Res(n, << >>)

handle_keepalive(n, now) ==
    LET timeout == n.is_server /\ ~n.negotiation_initiated
                   /\ n.lcp_state = "STARTING"
                   /\ now - n.negotiation_start_time > negotiation_timeout
                   /\ HostTimeoutEnabled
        r1 == IF timeout
              THEN send_lcp_configure_request(
                       [n EXCEPT !.negotiation_initiated = TRUE], now)
              ELSE Res(n, << >>)
        r2 == IF needs_echo(r1.n, now)
              THEN send_lcp_echo_request(r1.n, now)
              ELSE Res(r1.n, << >>)
    IN Res(r2.n, r1.out \o r2.out)

\* ------------------------------------------------------------------------
\* TCP: segments, connections (class TCPConnection) and the state machine
\* (class TCPStateMachine)
\* ------------------------------------------------------------------------
\* TCPConnection.rcv_wnd, RTTEstimator.rto (seconds) and the TIME_WAIT hold
rcv_wnd == 8192
InitialRTO == 1
TimeWaitSeconds == 240
max_retransmit_count == 6

\* The payload of a segment: the peer's byte stream is identified by its
\* sequence numbers, so the segment (seq, len) carries bytes seq .. seq+len-1
\* and a retransmission carries the same bytes again.
Bytes(seq, len) == [i \in 1..len |-> seq + i - 1]

\* A segment the host emits, as create_tcp_segment/create_ip_packet build it
TcpOut(f, seq, ack, flags, data) ==
    [proto |-> PPP_IP, flow |-> f, seq |-> seq, ack |-> ack,
     flags |-> flags, data |-> data]

NoConn == [state |-> "NONE"]

\* CongestionControl.__init__ (mss = 1460; cwnd is float(mss))
InitialCwnd == 1460
NewCongestionControl ==
    [ mss            |-> InitialCwnd,
      cwnd           |-> InitialCwnd,
      ssthresh       |-> 65535,
      duplicate_acks |-> 0,
      fast_recovery  |-> FALSE,
      recovery_point |-> 0,
      bytes_acked    |-> 0 ]

Max2(a, b) == IF a >= b THEN a ELSE b

enter_fast_recovery(cc) ==
    LET ssthresh == Max2(cc.cwnd \div 2, 2 * cc.mss)
    IN [cc EXCEPT !.ssthresh = ssthresh,
                  !.cwnd = ssthresh + 3 * cc.mss,
                  !.fast_recovery = TRUE,
                  !.recovery_point = ssthresh + 3 * cc.mss]

\* CongestionControl.on_ack
on_ack(cc, acked_bytes, is_duplicate) ==
    IF is_duplicate
    THEN LET c1 == [cc EXCEPT !.duplicate_acks = @ + 1]
         IN IF c1.duplicate_acks >= 3 /\ ~c1.fast_recovery
            THEN enter_fast_recovery(c1)
            ELSE IF c1.fast_recovery THEN [c1 EXCEPT !.cwnd = @ + c1.mss]
            ELSE c1
    ELSE LET c1 == [cc EXCEPT !.duplicate_acks = 0]
             \* exit_fast_recovery
             c2 == IF c1.fast_recovery
                      /\ acked_bytes >= c1.recovery_point
                                        - (c1.recovery_point \div 2)
                   THEN [c1 EXCEPT !.cwnd = c1.ssthresh,
                                   !.fast_recovery = FALSE,
                                   !.duplicate_acks = 0]
                   ELSE c1
         IN IF c2.fast_recovery THEN c2
            ELSE IF c2.cwnd < c2.ssthresh
            THEN [c2 EXCEPT !.cwnd = @ + (IF acked_bytes < c2.mss
                                          THEN acked_bytes ELSE c2.mss)]
            ELSE IF c2.bytes_acked + acked_bytes >= c2.cwnd
            THEN [c2 EXCEPT !.cwnd = @ + c2.mss, !.bytes_acked = 0]
            ELSE [c2 EXCEPT !.bytes_acked = @ + acked_bytes]

\* TCPConnection as process_tcp_segment creates it for a SYN (iss is
\* random.randint's value)
NewConnection(iss) ==
    [ state              |-> "LISTEN",
      initial_seq        |-> iss,
      initial_ack        |-> 0,
      seq_num            |-> iss,
      snd_una            |-> iss,
      snd_nxt            |-> iss,
      rcv_nxt            |-> 0,
      retransmit_queue   |-> << >>,
      bytes_in_flight    |-> 0,
      out_of_order_queue |-> << >>,
      send_buffer        |-> << >>,
      congestion_control |-> NewCongestionControl,
      local_sock         |-> "none" ]

\* TCPConnection(state=CLOSED): the throw-away connection process_tcp_segment
\* hands to the state machine for a non-SYN segment of an unknown flow
ClosedConnection == [NewConnection(0) EXCEPT !.state = "CLOSED"]

\* The result of a state handler: the connection afterwards, the segments
\* returned for sending, the timers armed, bytes written to conn.local_sock,
\* and whether the handler raised.
SM(conn, resp, tm, wr, exc) ==
    [conn |-> conn, resp |-> resp, timers |-> tm, written |-> wr, exc |-> exc]

Timer(type, expire, f) == [type |-> type, expire |-> expire, conn_id |-> f]

_is_sequence_acceptable(conn, seq, seg_len) ==
    IF seg_len = 0
    THEN IF rcv_wnd = 0 THEN seq = conn.rcv_nxt
         ELSE conn.rcv_nxt <= seq /\ seq < conn.rcv_nxt + rcv_wnd
    ELSE IF rcv_wnd = 0 THEN FALSE
         ELSE \/ (conn.rcv_nxt <= seq /\ seq < conn.rcv_nxt + rcv_wnd)
              \/ (conn.rcv_nxt <= seq + seg_len - 1
                  /\ seq + seg_len - 1 < conn.rcv_nxt + rcv_wnd)

_create_ack_segment(conn, seg) ==
    TcpOut(seg.flow, conn.snd_nxt, conn.rcv_nxt, {"ACK"}, << >>)

_create_rst_segment(seg, seq, ack, flags) ==
    TcpOut(seg.flow, seq, ack, flags, << >>)

\* remove_from_retransmit_queue: drop the leading segments with
\* seq_end <= ack_num; returns the queue, bytes_in_flight and the bytes acked
RECURSIVE remove_from_retransmit_queue(_, _, _)
remove_from_retransmit_queue(queue, in_flight, ack_num) ==
    IF queue # << >> /\ Head(queue).seq_end <= ack_num
    THEN LET r == remove_from_retransmit_queue(
                      Tail(queue), in_flight - Len(Head(queue).data), ack_num)
         IN [r EXCEPT !.acked = @ + Len(Head(queue).data)]
    ELSE [queue |-> queue, in_flight |-> in_flight, acked |-> 0]

AckQueue(conn, ack) ==
    LET r == remove_from_retransmit_queue(conn.retransmit_queue,
                                          conn.bytes_in_flight, ack)
    IN [conn EXCEPT !.retransmit_queue = r.queue,
                    !.bytes_in_flight = r.in_flight,
                    !.congestion_control =
                         IF r.acked > 0 THEN on_ack(@, r.acked, FALSE) ELSE @]

_handle_closed_state(conn, seg) ==
    IF "RST" \notin seg.flags
    THEN IF "ACK" \in seg.flags
         THEN SM(conn, << _create_rst_segment(seg, seg.ack, 0, {"RST"}) >>,
                 << >>, << >>, FALSE)
         ELSE LET seg_len == seg.len
                             + (IF seg.flags \cap {"SYN", "FIN"} # {} THEN 1 ELSE 0)
              IN SM(conn, << _create_rst_segment(seg, 0, seg.seq + seg_len,
                                                 {"RST", "ACK"}) >>,
                    << >>, << >>, FALSE)
    ELSE SM(conn, << >>, << >>, << >>, FALSE)

_handle_listen_state(conn, seg, now) ==
    IF "RST" \in seg.flags THEN SM(conn, << >>, << >>, << >>, FALSE)
    ELSE IF "ACK" \in seg.flags
    THEN SM(conn, << _create_rst_segment(seg, seg.ack, 0, {"RST"}) >>,
            << >>, << >>, FALSE)
    ELSE IF "SYN" \in seg.flags
    THEN LET c == [conn EXCEPT !.rcv_nxt = seg.seq + 1,
                               !.initial_ack = seg.seq,
                               !.snd_nxt = conn.initial_seq + 1,
                               !.snd_una = conn.initial_seq,
                               !.state = "SYN_RCVD"]
         IN SM(c, << TcpOut(seg.flow, c.initial_seq, c.rcv_nxt,
                            {"SYN", "ACK"}, << >>) >>,
               << Timer("RETRANSMISSION", now + InitialRTO, seg.flow) >>,
               << >>, FALSE)
    ELSE SM(conn, << >>, << >>, << >>, FALSE)

\* _process_data_segment: the data path of SYN_RCVD
_process_data_segment(conn, seg) ==
    LET data == Bytes(seg.seq, seg.len)
        c1   == [conn EXCEPT !.rcv_nxt = @ + seg.len]
    IN IF seg.len > 0
       THEN IF c1.local_sock # "none"
            THEN SM(c1, << _create_ack_segment(c1, seg) >>, << >>,
                    IF c1.local_sock = "open" THEN data ELSE << >>, FALSE)
            ELSE SM([c1 EXCEPT !.send_buffer = @ \o data],
                    << _create_ack_segment(c1, seg) >>, << >>, << >>, FALSE)
       ELSE SM(conn, << _create_ack_segment(conn, seg) >>, << >>, << >>, FALSE)

\* A SYN_RCVD handler that takes any acknowledgment number
C3_Mutant_syn_rcvd(conn, seg) ==
    IF "ACK" \in seg.flags /\ "RST" \notin seg.flags
    THEN SM([conn EXCEPT !.state = "ESTABLISHED", !.snd_una = seg.ack],
            << >>, << >>, << >>, FALSE)
    ELSE SM(conn, << >>, << >>, << >>, FALSE)

\* A SYN_RCVD handler that takes an acknowledgment of a byte not yet sent
C14_Mutant_syn_rcvd(conn, seg) ==
    IF "ACK" \in seg.flags /\ "RST" \notin seg.flags
       /\ conn.snd_una <= seg.ack /\ seg.ack <= conn.snd_nxt + 1
    THEN SM([conn EXCEPT !.state = "ESTABLISHED", !.snd_una = seg.ack],
            << >>, << >>, << >>, FALSE)
    ELSE SM(conn, << >>, << >>, << >>, FALSE)

_handle_syn_rcvd_state(conn, seg) ==
    IF ~_is_sequence_acceptable(conn, seg.seq, seg.len)
    THEN IF "RST" \notin seg.flags
         THEN SM(conn, << _create_ack_segment(conn, seg) >>, << >>, << >>, FALSE)
         ELSE SM(conn, << >>, << >>, << >>, FALSE)
    ELSE IF "RST" \in seg.flags
    THEN SM([conn EXCEPT !.state = "LISTEN"], << >>, << >>, << >>, FALSE)
    ELSE IF "ACK" \in seg.flags
    THEN IF conn.snd_una <= seg.ack /\ seg.ack <= conn.snd_nxt
         THEN LET c == AckQueue([conn EXCEPT !.state = "ESTABLISHED",
                                             !.snd_una = seg.ack], seg.ack)
              IN IF seg.len > 0 THEN _process_data_segment(c, seg)
                 ELSE SM(c, << >>, << >>, << >>, FALSE)
         ELSE SM(conn, << _create_rst_segment(seg, seg.ack, 0, {"RST"}) >>,
                 << >>, << >>, FALSE)
    ELSE SM(conn, << >>, << >>, << >>, FALSE)

\* _queue_out_of_order_segment: insert before the first queued segment that
\* starts later
RECURSIVE InsertInOrder(_, _)
InsertInOrder(queue, s) ==
    IF queue = << >> THEN << s >>
    ELSE IF s.seq_start < Head(queue).seq_start THEN << s >> \o queue
    ELSE << Head(queue) >> \o InsertInOrder(Tail(queue), s)

_queue_out_of_order_segment(conn, seq, len) ==
    [conn EXCEPT !.out_of_order_queue =
        InsertInOrder(@, [seq_start |-> seq, seq_end |-> seq + len])]

\* The proxy set-up of the ESTABLISHED data path.  conn.proxy_task is never
\* assigned before this point, so the set-up branch is always taken, and its
\* first statement is tcp_stack._map_service_port(conn.dst_port): tcp_stack is
\* the AsyncTCPStack, which has no such method (it is TCPStateMachine's), so
\* the lookup raises AttributeError after rcv_nxt has been advanced.
FirstDataSetup(conn) == SM(conn, << >>, << >>, << >>, TRUE)

_handle_established_state(conn, seg) ==
    IF ~_is_sequence_acceptable(conn, seg.seq, seg.len)
    THEN IF "RST" \notin seg.flags
         THEN SM(conn, << _create_ack_segment(conn, seg) >>, << >>, << >>, FALSE)
         ELSE SM(conn, << >>, << >>, << >>, FALSE)
    ELSE IF "RST" \in seg.flags
    THEN SM([conn EXCEPT !.state = "CLOSED"], << >>, << >>, << >>, FALSE)
    ELSE
    LET ackNew  == "ACK" \in seg.flags
                   /\ conn.snd_una < seg.ack /\ seg.ack <= conn.snd_nxt
        ackFar  == "ACK" \in seg.flags /\ ~ackNew /\ seg.ack > conn.snd_nxt
        c1      == IF ackNew
                   THEN [AckQueue(conn, seg.ack) EXCEPT !.snd_una = seg.ack]
                   ELSE conn
    IN IF ackFar
       THEN SM(conn, << _create_ack_segment(conn, seg) >>, << >>, << >>, FALSE)
       ELSE
       LET newLen == IF seg.seq < c1.rcv_nxt
                     THEN seg.len - (c1.rcv_nxt - seg.seq) ELSE seg.len
           \* the in-sequence branch and the overlap branch with new bytes
           raises == seg.len > 0 /\ seg.seq <= c1.rcv_nxt /\ newLen > 0
           c2     == IF seg.len = 0 THEN c1
                     ELSE IF seg.seq <= c1.rcv_nxt
                     THEN IF newLen > 0
                          THEN [c1 EXCEPT !.rcv_nxt = @ + newLen] ELSE c1
                     ELSE _queue_out_of_order_segment(c1, seg.seq, seg.len)
           resp   == IF seg.len = 0 THEN << >>
                     ELSE << _create_ack_segment(c2, seg) >>
       IN IF raises THEN FirstDataSetup(c2)
          ELSE IF "FIN" \in seg.flags
          THEN LET c3 == [c2 EXCEPT !.rcv_nxt = @ + 1, !.state = "CLOSE_WAIT"]
               IN SM(c3, << _create_ack_segment(c3, seg) >>, << >>, << >>, FALSE)
          ELSE SM(c2, resp, << >>, << >>, FALSE)

_handle_close_wait_state(conn, seg) == SM(conn, << >>, << >>, << >>, FALSE)

\* _set_time_wait_timer: the timer it adds
_set_time_wait_timer(f, now) == Timer("TIME_WAIT", now + TimeWaitSeconds, f)

_handle_fin_wait_2_state(conn, seg, now) ==
    IF "FIN" \in seg.flags
    THEN LET c == [conn EXCEPT !.rcv_nxt = @ + 1, !.state = "TIME_WAIT"]
         IN SM(c, << _create_ack_segment(c, seg) >>,
               << _set_time_wait_timer(seg.flow, now) >>, << >>, FALSE)
    ELSE SM(conn, << >>, << >>, << >>, FALSE)

_handle_time_wait_state(conn, seg, now) ==
    SM(conn, << >>, << _set_time_wait_timer(seg.flow, now) >>, << >>, FALSE)

process_segment(conn, seg, now) ==
    IF conn.state = "CLOSED" THEN _handle_closed_state(conn, seg)
    ELSE IF conn.state = "LISTEN" THEN _handle_listen_state(conn, seg, now)
    ELSE IF conn.state = "SYN_RCVD" THEN _handle_syn_rcvd_state(conn, seg)
    ELSE IF conn.state = "ESTABLISHED" THEN _handle_established_state(conn, seg)
    ELSE IF conn.state = "CLOSE_WAIT" THEN _handle_close_wait_state(conn, seg)
    ELSE IF conn.state = "FIN_WAIT_2"
    THEN _handle_fin_wait_2_state(conn, seg, now)
    ELSE IF conn.state = "TIME_WAIT"
    THEN _handle_time_wait_state(conn, seg, now)
    ELSE SM(conn, << >>, << >>, << >>, FALSE)

\* ------------------------------------------------------------------------
\* Bounds and input sets of the host-bridge specification
\* ------------------------------------------------------------------------
\* AsyncServiceProxy.services: the ports that have a service entry
Services == {22, 80, 443, 8080, 3000, 5000, 8000}

\* (src_port, dst_port) keys of the flows the peer uses: one to a service
\* port, one to a port without a service entry
FlowA == <<40000, 22>>
FlowB == <<40001, 8888>>
Flows == {FlowA, FlowB}

\* the peer's initial sequence number and the values random.randint yields
\* for the host's initial_seq
PeerISS == 1000
IssValues == {5000, 5003}
\* magic numbers random.randint yields
MagicValues == {11, 22}
\* ... and the ones the host bridge draws at construction
HostMagics == {11}
\* longest payload of a peer segment and of one read from the service
MaxLen == 2
\* out-of-order segments queued, timers pending, service sockets opened and
\* service bytes forwarded per flow, at most
MaxOOO == 1
MaxTimers == 1
MaxSockets == 2
MaxSvcBytes == 1

\* A TCP segment in an IP frame as the peer sends it.  checksum tells whether
\* the IP header checksum and the TCP checksum it carries are the ones
\* calculate_ip_checksum and calculate_tcp_checksum give for its octets.
Seg(f, seq, ack, flags, len) ==
    [proto |-> PPP_IP, flow |-> f, seq |-> seq, ack |-> ack,
     flags |-> flags, len |-> len, checksum |-> "valid"]

\* the same segment with an octet of the IP header ("bad_ip") or of the TCP
\* checksum field ("bad_tcp") changed on the way
Corrupt(seg, how) == [seg EXCEPT !.checksum = how]

\* an IP frame parse_packet rejects (not TCP, truncated)
BadIpFrame == [proto |-> PPP_IP, flow |-> << >>, seq |-> 0, ack |-> 0,
               flags |-> {}, len |-> 0, checksum |-> "valid"]

\* parse_packet: None for a frame that is too short or not TCP, the header
\* fields and payload otherwise; the checksum fields are read, not verified
parse_packet(frame) == IF frame.flow = << >> THEN NoPacket ELSE frame

\* Segments the peer sends on flow f when the host's initial sequence number
\* there is iss: a SYN, acknowledgments below, at and above what the host has
\* sent, data in order, ahead of order and overlapping, FIN at and one past
\* the start of the stream, RST, a segment beyond the window
PeerSegs(f, iss) ==
    { Seg(f, PeerISS, 0, {"SYN"}, 0),
      Seg(f, PeerISS, iss + 1, {"SYN", "ACK"}, 0),
      Seg(f, PeerISS + 1, iss + 1, {"FIN", "ACK"}, 0),
      Seg(f, PeerISS + 2, iss + 1, {"FIN", "ACK"}, 0),
      Seg(f, PeerISS + 1, 0, {"RST"}, 0),
      Seg(f, PeerISS + 1 + rcv_wnd, iss + 1, {"ACK"}, 0),
      Seg(f, PeerISS + 2, iss + 1, {"ACK"}, 1) }
    \cup {Seg(f, PeerISS + 1, iss + d, {"ACK"}, 0) : d \in (0 - 1)..2}
    \cup {Seg(f, PeerISS + 1, iss + 1, {"ACK"}, l) : l \in 1..MaxLen}

\* The segments of one short exchange: a handshake, a data segment and a reset
LightSegs(f, iss) ==
    { Seg(f, PeerISS, 0, {"SYN"}, 0),
      Seg(f, PeerISS + 1, iss + 1, {"ACK"}, 0),
      Seg(f, PeerISS + 1, iss + 1, {"ACK"}, 1),
      Seg(f, PeerISS + 1, 0, {"RST"}, 0) }

PeerMagic == 44

\* Control packets the peer sends to the host: the canonical exchange and a
\* Nak of the host's request ...
CanonCtl ==
    { create_ppp_packet(PPP_LCP, CONFIGURE_REQUEST, 1,
          << Opt(LCP_MAGIC_NUMBER, 6, PeerMagic), Opt(LCP_MRU, 4, DefaultMRU) >>),
      create_ppp_packet(PPP_LCP, CONFIGURE_NAK, 1,
          << Opt(LCP_MRU, 4, MinMRU) >>),
      create_ppp_packet(PPP_LCP, CONFIGURE_ACK, 1, << >>),
      create_ppp_packet(PPP_IPCP, CONFIGURE_REQUEST, 1,
          << Opt(IPCP_IP_ADDRESS, 6, ClientIP) >>),
      create_ppp_packet(PPP_IPCP, CONFIGURE_ACK, 1, << >>) }

\* ... and with more of them: a request the host rejects, one it naks,
\* echo, acknowledgments of a second request
PeerCtl ==
    CanonCtl \cup
    { create_ppp_packet(PPP_LCP, CONFIGURE_REQUEST, 2,
          << Opt(LCP_AUTH_PROTOCOL, 4, 0), Opt(LCP_MAGIC_NUMBER, 6, PeerMagic) >>),
      create_ppp_packet(PPP_LCP, CONFIGURE_ACK, 2, << >>),
      create_ppp_packet(PPP_LCP, ECHO_REQUEST, 7, << >>),
      create_ppp_packet(PPP_IPCP, CONFIGURE_REQUEST, 2,
          << Opt(IPCP_IP_ADDRESS, 6, 0) >>),
      create_ppp_packet(PPP_IPCP, CONFIGURE_REJECT, 1,
          << Opt(IPCP_IP_ADDRESS, 6, HostIP) >>) }

\* ------------------------------------------------------------------------
\* AsyncPPPHandler: the frame codec.  Octets are integers 0..255.
\* ------------------------------------------------------------------------
PPP_FLAG == 126
PPP_ESCAPE == 125

\* byte ^ 0x20
Xor20(byte) == IF (byte \div 32) % 2 = 1 THEN byte - 32 ELSE byte + 32

\* AsyncPPPHandler.__init__
NewHandler == [buffer |-> << >>, in_frame |-> FALSE, escaped |-> FALSE]

\* The mutation used against C23: a decoder that knows the flag octet only
C23_Mutant_ProcessByte(h, byte) ==
    IF byte = PPP_FLAG
    THEN [h |-> [h EXCEPT !.buffer = << >>, !.in_frame = ~h.in_frame],
          frames |-> IF h.in_frame THEN << h.buffer >> ELSE << >>]
    ELSE [h |-> [h EXCEPT !.buffer = Append(@, byte)], frames |-> << >>]

\* the body of process_data's loop for one octet: the handler afterwards and
\* the frames appended
ProcessByte(h, byte) ==
    IF byte = PPP_FLAG
    THEN IF h.in_frame /\ Len(h.buffer) > 0
         THEN [h |-> [h EXCEPT !.buffer = << >>, !.in_frame = FALSE],
               frames |-> << h.buffer >>]
         ELSE [h |-> [h EXCEPT !.in_frame = TRUE, !.buffer = << >>,
                               !.escaped = FALSE],
               frames |-> << >>]
    ELSE IF h.in_frame
    THEN IF byte = PPP_ESCAPE
         THEN [h |-> [h EXCEPT !.escaped = TRUE], frames |-> << >>]
         ELSE IF h.escaped
         THEN [h |-> [h EXCEPT !.buffer = Append(@, Xor20(byte)),
                               !.escaped = FALSE],
               frames |-> << >>]
         ELSE [h |-> [h EXCEPT !.buffer = Append(@, byte)], frames |-> << >>]
    ELSE [h |-> h, frames |-> << >>]

RECURSIVE process_data(_, _)
process_data(h, data) ==
    IF data = << >> THEN [h |-> h, frames |-> << >>]
    ELSE LET r1 == ProcessByte(h, Head(data))
             r2 == process_data(r1.h, Tail(data))
         IN [h |-> r2.h, frames |-> r1.frames \o r2.frames]

\* the escaped octets of frame_data's loop
RECURSIVE EscapeLoop(_)
EscapeLoop(data) ==
    IF data = << >> THEN << >>
    ELSE (IF Head(data) \in {PPP_FLAG, PPP_ESCAPE}
          THEN << PPP_ESCAPE, Xor20(Head(data)) >>
          ELSE << Head(data) >>) \o EscapeLoop(Tail(data))

\* The mutation used against C24: no end flag
C24_Mutant_frame_data(data) == << PPP_FLAG >> \o EscapeLoop(data)

frame_data(data) == << PPP_FLAG >> \o EscapeLoop(data) \o << PPP_FLAG >>

\* ------------------------------------------------------------------------
\* State
\* ------------------------------------------------------------------------
VARIABLES
    session,        \* serial_reader: "init", "running", "closed"
    closeCause,     \* why serial_reader left its loop
    ppp,            \* bridge.ppp_negotiator
    clock,          \* time.time(), whole seconds
    connections,    \* tcp_stack.connections: flow -> TCPConnection or NoConn
    pending,        \* proxy.pending_connections: flow -> socket stored?
    hc_tasks,       \* handle_connection tasks created and not yet run, per flow
    service_tasks,  \* proxy.service_tasks: forward_service_data's position
    orphans,        \* open service sockets nothing refers to any more, per flow
    opened,         \* service sockets opened so far, per flow
    svc_written,    \* bytes written to the service socket, per flow
    timers,         \* timer_manager.timers
    out,            \* frames the last step wrote to the serial line
    rx,             \* the frame the last serial_reader step processed
    ev,             \* the last step
    peers,          \* SpecNeg: the two negotiators
    link,           \* SpecNeg: packets in flight to each side
    started,        \* SpecNeg: has the side's serial_reader started?
    payloads,       \* SpecFrame: the payloads handed to frame_data
    wire,           \* SpecFrame: the byte stream on the serial line
    fed,            \* SpecFrame: how much of it reader.read has returned
    ppp_handler,    \* SpecFrame: bridge.ppp_handler (buffer, in_frame, escaped)
    frames,         \* SpecFrame: the frames process_data has returned
    calls,          \* SpecFrame: process_data calls made
    pconn,          \* SpecProxy: the connection of the bidirectional proxy
    ptask,          \* SpecProxy: where the proxy's three coroutines are
    active_connections, \* SpecProxy: proxy.active_connections (its keys)
    svc,            \* SpecProxy: the native socket and the service behind it
    pout,           \* SpecProxy: segments the last step wrote to the line
    fconn,          \* SpecFwd: the ForwardedConnection of the client's flow
    ftask,          \* SpecFwd: where the forwarder's coroutines are
    client,         \* SpecFwd: the local client's socket
    fout,           \* SpecFwd: segments the last step wrote to the line
    fsent,          \* SpecFwd: the SYN and data segments written so far
    next_synthetic_port,  \* SpecPorts: the forwarder's port counter
    fwd_connections,      \* SpecPorts: forwarder.connections, port -> client
    handlers,             \* SpecPorts: the port each handle_client holds
    accepted,             \* SpecPorts: clients accepted so far
    dupacks,        \* SpecCC: duplicate ACKs received in a row (history)
    handling        \* SpecConc: the segment handle_tcp_packet is suspended in

bridgeVars == <<session, closeCause, ppp, clock, connections, pending,
                hc_tasks, service_tasks, orphans, opened, svc_written,
                timers, out, rx, ev>>
negVars == <<peers, link, started>>
codecVars == <<payloads, wire, fed, ppp_handler, frames, calls>>
bidiVars == <<pconn, ptask, active_connections, svc, pout>>
fwdVars == <<fconn, ftask, client, fout, fsent>>
portVars == <<next_synthetic_port, fwd_connections, handlers, accepted>>
auxVars == <<dupacks, handling>>
vars == <<bridgeVars, negVars, codecVars, bidiVars, fwdVars, portVars, auxVars>>
\* what the actions of the bridge, and of the two negotiators, leave alone
offBridge == <<negVars, codecVars, bidiVars, fwdVars, portVars, auxVars>>
offNeg == <<bridgeVars, codecVars, bidiVars, fwdVars, portVars, auxVars>>

proxyVars == <<pending, hc_tasks, service_tasks, orphans, opened, svc_written>>

Sides == {"client", "server"}

InitBridge ==
    /\ session = "init"
    /\ closeCause = "none"
    /\ \E m \in HostMagics : ppp = NewNegotiator(HostIP, ClientIP, TRUE, m)
    /\ clock = StartTime
    /\ connections = [f \in Flows |-> NoConn]
    /\ pending = [f \in Flows |-> FALSE]
    /\ hc_tasks = [f \in Flows |-> 0]
    /\ service_tasks = [f \in Flows |-> "none"]
    /\ orphans = [f \in Flows |-> 0]
    /\ opened = [f \in Flows |-> 0]
    /\ svc_written = [f \in Flows |-> << >>]
    /\ timers = << >>
    /\ out = << >>
    /\ rx = NoPacket
    /\ ev = "init"

IdleNeg ==
    /\ peers = [s \in Sides |-> NoPacket]
    /\ link = [s \in Sides |-> << >>]
    /\ started = [s \in Sides |-> FALSE]

IdleCodec ==
    /\ payloads = << >>
    /\ wire = << >>
    /\ fed = 0
    /\ ppp_handler = NewHandler
    /\ frames = << >>
    /\ calls = 0

\* no bidirectional proxy has been established
IdleProxy ==
    /\ pconn = NoConn
    /\ ptask = [p2s |-> "none", s2p |-> "none", run |-> "none",
                s2p_eof |-> FALSE]
    /\ active_connections = {}
    /\ svc = [sock |-> "none", peer |-> "open", written |-> 0]
    /\ pout = << >>

\* no client has connected to a listener of the port forwarder
IdleFwd ==
    /\ fconn = NoConn
    /\ ftask = [conn |-> "none", reader |-> "none", handler |-> "idle",
                waited |-> 0, sending |-> << >>]
    /\ client = [read |-> 0, closed |-> FALSE]
    /\ fout = << >>
    /\ fsent = << >>

PoolFirst == 30000
PoolLast == 60000
FwdClients == {1, 2, 3}

\* TCPPortForwarder.__init__: the port counter and the empty table
IdlePorts ==
    /\ next_synthetic_port = PoolFirst
    /\ fwd_connections = << >>
    /\ handlers = [c \in FwdClients |-> 0]
    /\ accepted = 0

\* no duplicate ACK has been seen, no segment is being handled
IdleAux ==
    /\ dupacks = 0
    /\ handling = NoPacket

\* the parts a specification does not use stay as constructed
IdleExt == IdleCodec /\ IdleProxy /\ IdleFwd /\ IdlePorts /\ IdleAux

Init == InitBridge /\ IdleNeg /\ IdleExt

\* ------------------------------------------------------------------------
\* AsyncPPPBridge: serial_reader and the tasks it creates
\* ------------------------------------------------------------------------
\* serial_reader up to its read loop: start_negotiation, then the keepalive
\* and timer tasks are created
BridgeStart ==
    /\ session = "init"
    /\ \E r \in {start_negotiation(ppp, clock)} :
          /\ ppp' = r.n
          /\ out' = r.out
    /\ session' = "running"
    /\ ev' = "start"
    /\ UNCHANGED <<closeCause, clock, connections, proxyVars, timers, rx, offBridge>>

\* serial_reader, one LCP or IPCP frame
HostPppFrame(packet, rnd) ==
    /\ session = "running"
    /\ \E r \in {handle_ppp_packet(ppp, packet, clock, rnd)} :
          /\ r.n.lcp_identifier <= MaxIdent
          /\ r.n.ipcp_identifier <= MaxIdent
          /\ ppp' = r.n
          /\ out' = r.out
    /\ rx' = packet
    /\ ev' = "frame"
    /\ UNCHANGED <<session, closeCause, clock, connections, proxyVars, timers,
                   offBridge>>

\* keepalive_handler, one iteration: a second passes, then handle_keepalive
KeepaliveTick(limit) ==
    /\ session = "running"
    /\ clock < StartTime + limit
    /\ clock' = clock + 1
    /\ \E r \in {handle_keepalive(ppp, clock + 1)} :
          /\ ppp' = r.n
          /\ out' = r.out
    /\ ev' = "keepalive"
    /\ UNCHANGED <<session, closeCause, connections, proxyVars, timers, rx,
                   offBridge>>

\* serial_reader: reader.read returns b'' (EOF) or raises (transport error);
\* the finally block cancels the tasks and closes the writer
SerialClose(cause) ==
    /\ session = "running"
    /\ session' = "closed"
    /\ closeCause' = cause
    /\ out' = << >>
    /\ ev' = "close"
    /\ UNCHANGED <<ppp, clock, connections, proxyVars, timers, rx, offBridge>>

\* process_tcp_segment: the connection the segment is processed against, and
\* whether it is (or becomes) the table's entry
SegmentTarget(conn, seg, iss) ==
    IF conn # NoConn THEN [conn |-> conn, stored |-> TRUE]
    ELSE IF "SYN" \in seg.flags
    THEN [conn |-> NewConnection(iss), stored |-> TRUE]
    ELSE [conn |-> ClosedConnection, stored |-> FALSE]

process_tcp_segment(conn, seg, iss, now) ==
    LET t == SegmentTarget(conn, seg, iss)
        r == process_segment(t.conn, seg, now)
    IN [r EXCEPT !.conn = IF t.stored THEN r.conn ELSE NoConn]

\* handle_tcp_packet (server role): does it call connect_to_service?
ConnectsAtSyn(seg) ==
    "SYN" \in seg.flags /\ "ACK" \notin seg.flags /\ seg.flow[2] \in Services

\* RECURSIVE insertion of a timer in expire_time order (heapq.heappush)
RECURSIVE add_timer(_, _)
add_timer(ts, t) ==
    IF ts = << >> THEN << t >>
    ELSE IF t.expire < Head(ts).expire THEN << t >> \o ts
    ELSE << Head(ts) >> \o add_timer(Tail(ts), t)

RECURSIVE AddTimers(_, _)
AddTimers(ts, new) ==
    IF new = << >> THEN ts ELSE AddTimers(add_timer(ts, Head(new)), Tail(new))

\* serial_reader, one IP frame: dropped unless is_ready_for_ip and
\* parse_packet succeeds; otherwise handle_tcp_packet and the write of its
\* response.  ok is connect_to_service's outcome, iss random.randint's value.
\* An exception of the handler leaves the read loop: the session ends.
handle_tcp_packet(seg, ok, iss) ==
    /\ session = "running"
    /\ rx' = seg
    /\ ev' = "frame"
    /\ IF ~is_ready_for_ip(ppp) \/ parse_packet(seg) = NoPacket
       THEN /\ out' = << >>
            /\ UNCHANGED <<session, closeCause, connections, proxyVars, timers>>
       ELSE
       LET f         == seg.flow
           connected == ConnectsAtSyn(seg) /\ ok /\ opened[f] < MaxSockets
           pending1  == pending[f] \/ connected
           orphans1  == orphans[f] + (IF connected /\ pending[f] THEN 1 ELSE 0)
       IN \E r \in {process_tcp_segment(connections[f], seg, iss, clock)} :
       LET attach    == /\ ~r.exc
                        /\ r.conn # NoConn
                        /\ r.conn.state = "ESTABLISHED"
                        /\ pending1
           conn2     == IF attach THEN [r.conn EXCEPT !.local_sock = "open"]
                        ELSE r.conn
           orphans2  == orphans1 + (IF attach /\ r.conn.local_sock = "open"
                                    THEN 1 ELSE 0)
       IN /\ r.conn # NoConn => Len(r.conn.out_of_order_queue) <= MaxOOO
          /\ Len(timers) + Len(r.timers) <= MaxTimers
          /\ connections' = [connections EXCEPT ![f] = conn2]
          /\ opened' = [opened EXCEPT ![f] = @ + (IF connected THEN 1 ELSE 0)]
          /\ pending' = [pending EXCEPT ![f] = pending1 /\ ~attach]
          /\ orphans' = [orphans EXCEPT ![f] = orphans2]
          /\ hc_tasks' = [hc_tasks EXCEPT ![f] = @ + (IF attach THEN 1 ELSE 0)]
          /\ svc_written' = [svc_written EXCEPT ![f] = @ \o r.written]
          /\ timers' = AddTimers(timers, r.timers)
          /\ UNCHANGED service_tasks
          /\ IF r.exc
             THEN /\ session' = "closed"
                  /\ closeCause' = "handler_exception"
                  /\ out' = << >>
             ELSE /\ out' = r.resp
                  /\ UNCHANGED <<session, closeCause>>
    /\ UNCHANGED <<ppp, clock>>

\* serial_reader hands one IP frame to handle_tcp_packet and waits for it
HostIpFrame(seg, ok, iss) ==
    /\ handle_tcp_packet(seg, ok, iss)
    /\ UNCHANGED offBridge

\* tcp_timer_handler, one iteration with something to do:
\* process_expired_timers pops every timer with expire_time <= now and awaits
\* its callback.  retransmit_callback only logs; time_wait_callback closes.
Expired(ts, now) == {i \in 1..Len(ts) : ts[i].expire <= now}

RECURSIVE DropExpired(_, _)
DropExpired(ts, now) ==
    IF ts # << >> /\ Head(ts).expire <= now THEN DropExpired(Tail(ts), now)
    ELSE ts

retransmit_callback(conn) == conn

time_wait_callback(conn) == [conn EXCEPT !.state = "CLOSED"]

process_expired_timers(conns, ts, now) ==
    [f \in Flows |->
        IF \E i \in Expired(ts, now) :
               ts[i].conn_id = f /\ ts[i].type = "TIME_WAIT"
        THEN time_wait_callback(conns[f])
        ELSE IF \E i \in Expired(ts, now) :
               ts[i].conn_id = f /\ ts[i].type = "RETRANSMISSION"
        THEN retransmit_callback(conns[f])
        ELSE conns[f]]

ProcessTimers ==
    /\ session = "running"
    /\ Expired(timers, clock) # {}
    /\ connections' = process_expired_timers(connections, timers, clock)
    /\ timers' = DropExpired(timers, clock)
    /\ out' = << >>
    /\ ev' = "timers"
    /\ UNCHANGED <<session, closeCause, ppp, clock, proxyVars, rx, offBridge>>

\* AsyncServiceProxy.handle_connection, the task handle_tcp_packet creates:
\* starts forward_service_data unless one is running, then flushes
\* conn.send_buffer to conn.local_sock (reconnecting when there is none; ok
\* is connect_to_service's outcome)
HandleConnection(f, ok) ==
    /\ session = "running"
    /\ hc_tasks[f] > 0
    /\ LET conn      == connections[f]
           flush     == conn.send_buffer # << >>
           reconnect == flush /\ conn.local_sock = "none"
                        /\ f[2] \in Services /\ ok /\ opened[f] < MaxSockets
           sock      == IF reconnect THEN "open" ELSE conn.local_sock
       IN /\ connections' = [connections EXCEPT
                                ![f] = [conn EXCEPT !.send_buffer = << >>,
                                                    !.local_sock = sock]]
          /\ opened' = [opened EXCEPT ![f] = @ + (IF reconnect THEN 1 ELSE 0)]
          /\ svc_written' = [svc_written EXCEPT
                                ![f] = IF flush /\ sock = "open"
                                       THEN @ \o conn.send_buffer ELSE @]
    /\ hc_tasks' = [hc_tasks EXCEPT ![f] = @ - 1]
    /\ service_tasks' = [service_tasks EXCEPT
                            ![f] = IF @ = "none" THEN "created" ELSE @]
    /\ out' = << >>
    /\ ev' = "handle_connection"
    /\ UNCHANGED <<session, closeCause, ppp, clock, pending, orphans, timers,
                   rx, offBridge>>

\* forward_service_data's finally block
ForwardCleanup(f, conn) ==
    /\ connections' = [connections EXCEPT
                          ![f] = [conn EXCEPT !.local_sock =
                                     IF @ = "none" THEN "none" ELSE "closed"]]
    /\ service_tasks' = [service_tasks EXCEPT ![f] = "none"]

\* forward_service_data, one step of the task.  Created: the loop condition is
\* tested, and the task either waits in read or goes to its finally block.
\* Reading with n > 0: read returned n bytes, which are sent with
\* seq = conn.seq_num and ack = conn.rcv_nxt, then the loop condition is
\* tested again.  Reading with n = 0: read returned b'' (the service closed
\* its end), the loop is left by break.  Reading with n = -1: wait_for timed
\* out after 0.1 s without data.  Both end in the finally block.
ForwardServiceData(f, n) ==
    /\ session = "running"
    /\ service_tasks[f] # "none"
    /\ LET conn == connections[f]
       IN IF service_tasks[f] = "created"
          THEN /\ n = 0 - 1
               /\ out' = << >>
               /\ IF conn.state = "ESTABLISHED"
                  THEN /\ service_tasks' = [service_tasks EXCEPT ![f] = "reading"]
                       /\ UNCHANGED connections
                  ELSE ForwardCleanup(f, conn)
          ELSE IF n > 0
          THEN /\ conn.local_sock = "open"
               /\ conn.seq_num + n <= conn.initial_seq + MaxSvcBytes
               /\ out' = << TcpOut(f, conn.seq_num, conn.rcv_nxt,
                                   {"PSH", "ACK"}, [i \in 1..n |-> 0]) >>
               /\ LET c == [conn EXCEPT !.seq_num = @ + n]
                  IN IF c.state = "ESTABLISHED"
                     THEN /\ connections' = [connections EXCEPT ![f] = c]
                          /\ UNCHANGED service_tasks
                     ELSE ForwardCleanup(f, c)
          ELSE /\ out' = << >>
               /\ ForwardCleanup(f, conn)
    /\ ev' = IF service_tasks[f] = "reading" /\ n = 0 THEN "service_eof"
             ELSE "forward"
    /\ UNCHANGED <<session, closeCause, ppp, clock, pending, hc_tasks, orphans,
                   opened, svc_written, timers, rx, offBridge>>

\* The runtime finalises a service socket nothing refers to any more (the
\* pair handle_tcp_packet overwrote in pending_connections or on the
\* connection) and closes it; when it does so is up to the garbage collector
CollectSocket(f) ==
    /\ session = "running"
    /\ orphans[f] > 0
    /\ orphans' = [orphans EXCEPT ![f] = @ - 1]
    /\ out' = << >>
    /\ ev' = "collect"
    /\ UNCHANGED <<session, closeCause, ppp, clock, connections, pending,
                   hc_tasks, service_tasks, opened, svc_written, timers, rx,
                   offBridge>>

\* The host's initial sequence number on flow f, as the peer learnt it from
\* the SYN+ACK (any of the values before there is one)
KnownISS(f) ==
    IF connections[f] = NoConn THEN IssValues
    ELSE {connections[f].initial_seq}

\* connect_to_service's outcome and random.randint's value are drawn where
\* the code draws them
DrawsFor(seg, ok, iss) ==
    /\ ok \/ (seg # BadIpFrame /\ ConnectsAtSyn(seg))
    /\ \/ iss = CHOOSE i \in IssValues : \A j \in IssValues : i <= j
       \/ (seg # BadIpFrame /\ connections[seg.flow] = NoConn
                              /\ "SYN" \in seg.flags)

Next ==
    \/ BridgeStart
    \/ \E p \in CanonCtl, rnd \in MagicValues : HostPppFrame(p, rnd)
    \/ \E f \in Flows : \E b \in KnownISS(f) :
          /\ \A g \in Flows \ {f} : connections[g] = NoConn
          /\ \E seg \in LightSegs(f, b) \cup {BadIpFrame},
                ok \in BOOLEAN, iss \in IssValues :
                DrawsFor(seg, ok, iss) /\ HostIpFrame(seg, ok, iss)
    \/ KeepaliveTick(MaxTicks)
    \/ ProcessTimers
    \/ \E f \in Flows, ok \in BOOLEAN : HandleConnection(f, ok)
    \/ \E f \in Flows, n \in (0 - 1)..MaxSvcBytes : ForwardServiceData(f, n)
    \/ \E f \in Flows : CollectSocket(f)
    \/ \E cause \in {"eof", "transport_error"} : SerialClose(cause)

Spec == Init /\ [][Next]_vars

\* ------------------------------------------------------------------------
\* The host bridge once the peer has negotiated: the session is running and
\* the negotiator is in the state the canonical exchange leaves it in (the
\* peer's Configure-Request, its Ack of the host's request, then the same for
\* IPCP); from there the peer sends IP traffic only.
\* ------------------------------------------------------------------------
NegotiatedPPP(m) ==
    LET n0 == NewNegotiator(HostIP, ClientIP, TRUE, m)
        r1 == start_negotiation(n0, StartTime)
        r2 == handle_ppp_packet(r1.n,
                  create_ppp_packet(PPP_LCP, CONFIGURE_REQUEST, 1,
                      << Opt(LCP_MAGIC_NUMBER, 6, PeerMagic),
                         Opt(LCP_MRU, 4, DefaultMRU) >>), StartTime, m)
        r3 == handle_ppp_packet(r2.n,
                  create_ppp_packet(PPP_LCP, CONFIGURE_ACK, 1, << >>),
                  StartTime, m)
        r4 == handle_ppp_packet(r3.n,
                  create_ppp_packet(PPP_IPCP, CONFIGURE_REQUEST, 1,
                      << Opt(IPCP_IP_ADDRESS, 6, ClientIP) >>), StartTime, m)
        r5 == handle_ppp_packet(r4.n,
                  create_ppp_packet(PPP_IPCP, CONFIGURE_ACK, 1, << >>),
                  StartTime, m)
    IN r5.n

InitTCP ==
    /\ session = "running"
    /\ closeCause = "none"
    /\ \E m \in HostMagics : ppp = NegotiatedPPP(m)
    /\ clock = StartTime
    /\ connections = [f \in Flows |-> NoConn]
    /\ pending = [f \in Flows |-> FALSE]
    /\ hc_tasks = [f \in Flows |-> 0]
    /\ service_tasks = [f \in Flows |-> "none"]
    /\ orphans = [f \in Flows |-> 0]
    /\ opened = [f \in Flows |-> 0]
    /\ svc_written = [f \in Flows |-> << >>]
    /\ timers = << >>
    /\ out = << >>
    /\ rx = NoPacket
    /\ ev = "init"
    /\ IdleNeg
    /\ IdleExt

\* The peer uses one flow in a run
NextTCP ==
    \/ \E f \in Flows : \E b \in KnownISS(f) :
          /\ \A g \in Flows \ {f} : connections[g] = NoConn
          /\ \E seg \in PeerSegs(f, b) \cup {BadIpFrame},
                ok \in BOOLEAN, iss \in IssValues :
                DrawsFor(seg, ok, iss) /\ HostIpFrame(seg, ok, iss)
    \/ KeepaliveTick(MaxTicks)
    \/ ProcessTimers
    \/ \E f \in Flows, ok \in BOOLEAN : HandleConnection(f, ok)
    \/ \E f \in Flows, n \in (0 - 1)..MaxSvcBytes : ForwardServiceData(f, n)
    \/ \E f \in Flows : CollectSocket(f)
    \/ \E cause \in {"eof", "transport_error"} : SerialClose(cause)

SpecTCP == InitTCP /\ [][NextTCP]_vars

\* ------------------------------------------------------------------------
\* The host bridge once negotiated, on a line that damages frames: the
\* segments of one short exchange arrive intact or with a checksum that no
\* longer matches
\* ------------------------------------------------------------------------
DamagedSegs(f, iss) ==
    LightSegs(f, iss)
    \cup {Corrupt(s, how) : s \in LightSegs(f, iss), how \in {"bad_ip", "bad_tcp"}}

NextSum ==
    \/ \E f \in Flows : \E b \in KnownISS(f) :
          /\ \A g \in Flows \ {f} : connections[g] = NoConn
          /\ \E seg \in DamagedSegs(f, b), ok \in BOOLEAN, iss \in IssValues :
                DrawsFor(seg, ok, iss) /\ HostIpFrame(seg, ok, iss)
    \/ \E f \in Flows, ok \in BOOLEAN : HandleConnection(f, ok)
    \/ \E f \in Flows, n \in (0 - 1)..MaxSvcBytes : ForwardServiceData(f, n)
    \/ \E f \in Flows : CollectSocket(f)
    \/ \E cause \in {"eof", "transport_error"} : SerialClose(cause)

SpecSum == InitTCP /\ [][NextSum]_vars

\* ------------------------------------------------------------------------
\* The host bridge with control traffic only
\* ------------------------------------------------------------------------
NextPPP ==
    \/ BridgeStart
    \/ \E p \in PeerCtl, rnd \in MagicValues : HostPppFrame(p, rnd)
    \/ KeepaliveTick(MaxPppTicks)
    \/ \E cause \in {"eof", "transport_error"} : SerialClose(cause)

SpecPPP == Init /\ [][NextPPP]_vars

\* ------------------------------------------------------------------------
\* Two negotiators, one in the client role and one in the server role, joined
\* by a lossless in-order link: link[s] holds the packets on their way to s
\* ------------------------------------------------------------------------
Other(side) == IF side = "client" THEN "server" ELSE "client"

InitNeg ==
    /\ InitBridge
    /\ IdleExt
    /\ \E mc \in MagicValues, ms \in MagicValues :
          /\ mc # ms
          /\ peers = [s \in Sides |->
                        IF s = "client"
                        THEN NewNegotiator(ClientIP, HostIP, FALSE, mc)
                        ELSE NewNegotiator(HostIP, ClientIP, TRUE, ms)]
    /\ link = [s \in Sides |-> << >>]
    /\ started = [s \in Sides |-> FALSE]

\* serial_reader of one side, up to its read loop
NegStart(side) ==
    /\ ~started[side]
    /\ \E r \in {start_negotiation(peers[side], clock)} :
          /\ peers' = [peers EXCEPT ![side] = r.n]
          /\ link' = [link EXCEPT ![Other(side)] = @ \o r.out]
    /\ started' = [started EXCEPT ![side] = TRUE]
    /\ UNCHANGED offNeg

\* serial_reader of one side, one control frame off the link
NegDeliver(side) ==
    /\ started[side]
    /\ link[side] # << >>
    /\ \E rnd \in MagicValues :
       \E r \in {handle_ppp_packet(peers[side], Head(link[side]), clock, rnd)} :
          /\ r.n.lcp_identifier <= MaxIdent
          /\ r.n.ipcp_identifier <= MaxIdent
          /\ peers' = [peers EXCEPT ![side] = r.n]
          /\ link' = [link EXCEPT ![side] = Tail(@),
                                  ![Other(side)] = @ \o r.out]
    /\ UNCHANGED <<started, offNeg>>

\* keepalive_handler of one side, an iteration that does something
NegKeepalive(side) ==
    /\ started[side]
    /\ \E r \in {handle_keepalive(peers[side], clock)} :
          /\ r.out # << >>
          /\ peers' = [peers EXCEPT ![side] = r.n]
          /\ link' = [link EXCEPT ![Other(side)] = @ \o r.out]
    /\ UNCHANGED <<started, offNeg>>

NextNeg ==
    \E side \in Sides : NegStart(side) \/ NegDeliver(side) \/ NegKeepalive(side)

\* Each serial_reader starts, and its read loop takes every frame that has
\* arrived; the keepalive task runs every second.
FairNeg ==
    \A side \in Sides : /\ WF_vars(NegStart(side))
                        /\ WF_vars(NegDeliver(side))
                        /\ WF_vars(NegKeepalive(side))

SpecNeg == InitNeg /\ [][NextNeg]_vars /\ FairNeg

\* ------------------------------------------------------------------------
\* The frame codec on its own.  A sender frames payloads with frame_data and
\* writes them to the line one after the other (writer.write(framed)),
\* possibly behind a frame that ended in a malformed escape; the reader hands
\* what has arrived to process_data in chunks of any size (reader.read(1024)
\* returns between one octet and all of them)
\* ------------------------------------------------------------------------
ByteValues == {65, 93, 94, PPP_ESCAPE, PPP_FLAG}
MaxPayload == 2
MaxFrames == 2

Payloads == UNION {[1..n -> ByteValues] : n \in 1..MaxPayload}

RECURSIVE WireOf(_)
WireOf(ps) == IF ps = << >> THEN << >> ELSE frame_data(Head(ps)) \o WireOf(Tail(ps))

\* bodies of the frame cut short by PPP_ESCAPE, PPP_FLAG
BadBodies == {<< 65 >>, << 65, 94 >>, << >>}
Malformed(body) == << PPP_FLAG >> \o body \o << PPP_ESCAPE, PPP_FLAG >>

offCodec == <<bridgeVars, negVars, bidiVars, fwdVars, portVars, auxVars>>

InitFrame ==
    /\ InitBridge
    /\ IdleNeg
    /\ IdleProxy
    /\ IdleFwd
    /\ IdlePorts
    /\ IdleAux
    /\ payloads = << >>
    /\ wire \in {<< >>} \cup {Malformed(b) : b \in BadBodies}
    /\ fed = 0
    /\ ppp_handler = NewHandler
    /\ frames = << >>
    /\ calls = 0

\* the sender frames one payload and writes it
WriteFrame(p) ==
    /\ Len(payloads) < MaxFrames
    /\ payloads' = Append(payloads, p)
    /\ wire' = wire \o frame_data(p)
    /\ UNCHANGED <<fed, ppp_handler, frames, calls, offCodec>>

\* serial_reader, one iteration of its loop as far as process_data: read
\* returned the next k octets
ProcessData(k) ==
    /\ fed + k <= Len(wire)
    /\ \E r \in {process_data(ppp_handler, SubSeq(wire, fed + 1, fed + k))} :
          /\ ppp_handler' = r.h
          /\ frames' = frames \o r.frames
    /\ fed' = fed + k
    /\ calls' = calls + 1
    /\ UNCHANGED <<payloads, wire, offCodec>>

NextFrame ==
    \/ \E p \in Payloads : WriteFrame(p)
    \/ \E k \in 1..(Len(wire) - fed) : ProcessData(k)

SpecFrame == InitFrame /\ [][NextFrame]_vars

\* ------------------------------------------------------------------------
\* AsyncServiceProxy's bidirectional proxy on its own, from the state
\* establish_bidirectional_forwarding leaves when it returns True: the
\* native connection is open, the shutdown event and the PPP data queue are
\* new, and the proxy task (_run_bidirectional_forwarding, which gathers
\* _forward_ppp_to_service and _forward_service_to_ppp) has been created.
\* The TCP state machine appears through what it does to the connection:
\* handle_ppp_data queues in-order data, a FIN or RST of the peer changes
\* conn.state.
\* ------------------------------------------------------------------------
MaxQueued == 2
MaxProxyBytes == 2

Min2(a, b) == IF a <= b THEN a ELSE b

\* TCPConnection.get_available_window
get_available_window(conn) ==
    Min2(conn.snd_wnd, conn.cwnd) - conn.bytes_in_flight

\* the connection as establish_bidirectional_forwarding returns it; snd_wnd
\* and bytes_in_flight have the dataclass defaults, which nothing assigns
EstablishedProxyConn(iss) ==
    [ state           |-> "ESTABLISHED",
      initial_seq     |-> iss,
      seq_num         |-> iss + 1,
      rcv_nxt         |-> PeerISS + 2,
      snd_wnd         |-> 0,
      cwnd            |-> InitialCwnd,
      bytes_in_flight |-> 0,
      local_writer    |-> "set",
      _shutdown_event |-> FALSE,
      _ppp_data_queue |-> << >>,
      proxy_task      |-> "running" ]

InitProxy ==
    /\ InitBridge
    /\ IdleNeg
    /\ IdleCodec
    /\ IdleFwd
    /\ IdlePorts
    /\ IdleAux
    /\ \E iss \in IssValues : pconn = EstablishedProxyConn(iss)
    /\ ptask = [p2s |-> "start", s2p |-> "start", run |-> "gather",
                s2p_eof |-> FALSE]
    /\ active_connections = {FlowA}
    /\ svc = [sock |-> "open", peer |-> "open", written |-> 0]
    /\ pout = << >>

offProxy == <<bridgeVars, negVars, codecVars, fwdVars, portVars, auxVars>>

Stopped == {"done", "failed"}

\* handle_ppp_data, the branch taken while the proxy task is alive: n octets
\* of in-order data are put on the queue
ProxyData(n) ==
    /\ pconn.state = "ESTABLISHED"
    /\ pconn.proxy_task = "running"
    /\ Len(pconn._ppp_data_queue) < MaxQueued
    /\ pconn.rcv_nxt + n <= PeerISS + 2 + MaxProxyBytes
    /\ pconn' = [pconn EXCEPT !._ppp_data_queue = Append(@, n),
                              !.rcv_nxt = @ + n]
    /\ pout' = << >>
    /\ UNCHANGED <<ptask, active_connections, svc, offProxy>>

\* the state machine takes a FIN or an RST of the peer
ProxyStateChange(st) ==
    /\ pconn.state = "ESTABLISHED"
    /\ pconn' = [pconn EXCEPT !.state = st]
    /\ pout' = << >>
    /\ UNCHANGED <<ptask, active_connections, svc, offProxy>>

\* the service closes its end of the native connection
ServiceCloses ==
    /\ svc.sock = "open"
    /\ svc.peer = "open"
    /\ svc' = [svc EXCEPT !.peer = "eof"]
    /\ pout' = << >>
    /\ UNCHANGED <<pconn, ptask, active_connections, offProxy>>

\* the loop condition of both directions
KeepsForwarding(conn) == conn.state = "ESTABLISHED" /\ ~conn._shutdown_event

\* _forward_ppp_to_service, from one suspension to the next.  At "start" the
\* loop condition is tested.  At "waiting" wait_for returns: with the head
\* of the queue, which is written to the service (io tells whether write and
\* drain succeed), or with TimeoutError; then the loop condition is tested.
\* An exception leaves the coroutine, and gather hands it to the proxy task.
_forward_ppp_to_service(io) ==
    /\ ptask.p2s \in {"start", "waiting"}
    /\ pout' = << >>
    /\ IF ptask.p2s = "waiting" /\ pconn._ppp_data_queue # << >>
       THEN LET c == [pconn EXCEPT !._ppp_data_queue = Tail(@)]
            IN /\ pconn' = c
               /\ IF pconn.local_writer = "none" \/ svc.sock # "open" \/ ~io
                  THEN /\ ptask' = [ptask EXCEPT !.p2s = "failed"]
                       /\ UNCHANGED svc
                  ELSE /\ svc' = [svc EXCEPT !.written =
                                     @ + Head(pconn._ppp_data_queue)]
                       /\ ptask' = [ptask EXCEPT !.p2s =
                                     IF KeepsForwarding(c) THEN "waiting"
                                     ELSE "done"]
       ELSE /\ io
            /\ ptask' = [ptask EXCEPT !.p2s =
                            IF KeepsForwarding(pconn) THEN "waiting"
                            ELSE "done"]
            /\ UNCHANGED <<pconn, svc>>
    /\ UNCHANGED <<active_connections, offProxy>>

\* _send_data_to_ppp: the segment written and the connection afterwards
_send_data_to_ppp(conn, n) ==
    [seg  |-> TcpOut(FlowA, conn.seq_num, conn.rcv_nxt, {"PSH", "ACK"},
                     [i \in 1..n |-> 0]),
     conn |-> [conn EXCEPT !.seq_num = @ + n]]

\* _forward_service_to_ppp's exits: the finally block sets the shutdown event
S2PExit(conn, how, eof) ==
    /\ pconn' = [conn EXCEPT !._shutdown_event = TRUE]
    /\ ptask' = [ptask EXCEPT !.s2p = how, !.s2p_eof = @ \/ eof]

\* ... and the test of the loop condition at the end of an iteration
S2PLoop(conn, eof) ==
    IF KeepsForwarding(conn)
    THEN /\ pconn' = conn
         /\ ptask' = [ptask EXCEPT !.s2p = "reading", !.s2p_eof = @ \/ eof]
    ELSE S2PExit(conn, "done", eof)

\* _forward_service_to_ppp, from one suspension to the next.  At "start" the
\* loop condition is tested.  At "reading" wait_for(read) returns: n > 0
\* octets, which go to the peer in one segment (io: does the write to the
\* line succeed); n = 0 with io: b'', the end of the service's stream, after
\* which the loop goes on unless the writer is closing; n = 0 without io: the
\* read raises; n = -1: TimeoutError.
_forward_service_to_ppp(n, io) ==
    /\ ptask.s2p \in {"start", "reading"}
    /\ UNCHANGED <<active_connections, svc, offProxy>>
    /\ IF ptask.s2p = "start"
       THEN /\ n = 0 - 1 /\ io
            /\ pout' = << >>
            /\ S2PLoop(pconn, FALSE)
       ELSE IF n > 0
       THEN /\ svc.sock = "open" /\ svc.peer = "open"
            /\ pconn.seq_num + n <= pconn.initial_seq + 1 + MaxProxyBytes
            /\ IF io
               THEN \E r \in {_send_data_to_ppp(pconn, n)} :
                       /\ pout' = << r.seg >>
                       /\ S2PLoop(r.conn, FALSE)
               ELSE /\ pout' = << >>
                    /\ S2PExit(pconn, "failed", FALSE)
       ELSE IF n = 0
       THEN /\ pout' = << >>
            /\ svc.sock = "closed" \/ svc.peer = "eof" \/ ~io
            /\ IF ~io \/ pconn.local_writer = "none"
               THEN S2PExit(pconn, "failed", io)
               ELSE S2PLoop(pconn, TRUE)
       ELSE /\ io
            /\ svc.sock = "open" /\ svc.peer = "open"
            /\ pout' = << >>
            /\ S2PLoop(pconn, FALSE)

\* _cleanup_connection, its two halves: the shutdown event is set and the
\* proxy task cancelled and awaited; then the writer is closed, the
\* references are cleared and the flow leaves active_connections
CleanupSignals(conn) == [conn EXCEPT !._shutdown_event = TRUE]

CleanupReleases(conn) ==
    [conn EXCEPT !.local_writer = "none", !.proxy_task = "none"]

\* _run_bidirectional_forwarding, from one suspension to the next: gather
\* returns when both directions have returned or one has raised, and the
\* finally block runs _cleanup_connection, which suspends once on the way
_run_bidirectional_forwarding ==
    /\ pout' = << >>
    /\ \/ /\ ptask.run = "gather"
          /\ \/ "failed" \in {ptask.p2s, ptask.s2p}
             \/ {ptask.p2s, ptask.s2p} = {"done"}
          /\ pconn' = CleanupSignals(pconn)
          /\ ptask' = [ptask EXCEPT !.run = "cleanup"]
          /\ UNCHANGED <<active_connections, svc>>
       \/ /\ ptask.run = "cleanup"
          /\ pconn' = CleanupReleases(pconn)
          /\ svc' = [svc EXCEPT !.sock = IF pconn.local_writer = "set"
                                         THEN "closed" ELSE @]
          /\ active_connections' = active_connections \ {FlowA}
          /\ ptask' = [ptask EXCEPT !.run = "done"]
    /\ UNCHANGED offProxy

NextProxy ==
    \/ \E n \in 1..MaxLen : ProxyData(n)
    \/ \E st \in {"CLOSE_WAIT", "CLOSED"} : ProxyStateChange(st)
    \/ ServiceCloses
    \/ \E io \in BOOLEAN : _forward_ppp_to_service(io)
    \/ \E n \in (0 - 1)..MaxProxyBytes, io \in BOOLEAN :
          _forward_service_to_ppp(n, io)
    \/ _run_bidirectional_forwarding

\* The event loop runs every coroutine that can run: each wait_for has a
\* timeout of one second, a read at the end of the stream returns at once,
\* and gather's future wakes the proxy task.  Nothing obliges the service or
\* the line to send data or to fail.
FairProxy ==
    /\ WF_vars(_forward_ppp_to_service(TRUE))
    /\ WF_vars(_forward_service_to_ppp(0 - 1, TRUE))
    /\ WF_vars(_forward_service_to_ppp(0, TRUE))
    /\ WF_vars(_run_bidirectional_forwarding)

SpecProxy == InitProxy /\ [][NextProxy]_vars /\ FairProxy

\* ------------------------------------------------------------------------
\* TCPPortForwarder (src/tcp_forwarder.py) on its own: one client connects to
\* a listener; handle_client sends the SYN and runs _handle_connection, which
\* starts _read_from_client and polls for ESTABLISHED; serial_reader hands
\* the server's segments for the flow to handle_incoming_packet.  A coroutine
\* can be suspended where it awaits the drain of the serial writer, and the
\* others run meanwhile.
\* ------------------------------------------------------------------------
connect_timeout == 10
MaxClientBytes == 2
FwdFlow == <<30000, 22>>

\* ForwardedConnection as handle_client creates it; listed: is it in
\* forwarder.connections
NewForwarded(iss) ==
    [ state        |-> "INIT",
      seq_num      |-> iss,
      initial_seq  |-> iss,
      ack_num      |-> 0,
      buffer       |-> << >>,
      local_writer |-> "open",
      listed       |-> TRUE ]

\* octets read+1 .. read+n of the client's stream
ClientBytes(read, n) == [i \in 1..n |-> read + i]

\* the segments the server may send for the flow: SYN+ACK, acknowledgments,
\* a FIN
ServerSegs(iss) ==
    { Seg(FwdFlow, PeerISS, iss + 1, {"SYN", "ACK"}, 0),
      Seg(FwdFlow, PeerISS + 1, iss + 1, {"FIN", "ACK"}, 0) }
    \cup {Seg(FwdFlow, PeerISS + 1, iss + d, {"ACK"}, 0) :
             d \in 0..(MaxClientBytes + 1)}

InitFwd ==
    /\ InitBridge
    /\ IdleNeg
    /\ IdleCodec
    /\ IdleProxy
    /\ IdleFwd
    /\ IdlePorts
    /\ IdleAux

offFwd == <<bridgeVars, negVars, codecVars, bidiVars, portVars, auxVars>>

\* _send_syn
_send_syn(conn) ==
    [seg  |-> TcpOut(FwdFlow, conn.seq_num, 0, {"SYN"}, << >>),
     conn |-> [conn EXCEPT !.state = "SYN_SENT"]]

\* _send_data up to its await: the segment written
DataSegment(conn, data) ==
    TcpOut(FwdFlow, conn.seq_num, conn.ack_num, {"PSH", "ACK"}, data)

\* _send_ack, _send_fin
_send_ack(conn) == TcpOut(FwdFlow, conn.seq_num, conn.ack_num, {"ACK"}, << >>)
_send_fin(conn) ==
    TcpOut(FwdFlow, conn.seq_num, conn.ack_num, {"FIN", "ACK"}, << >>)

\* handle_client as far as _handle_connection's loop: the connection is
\* created and listed, the SYN written, the reader task created
handle_client(iss) ==
    /\ fconn = NoConn
    /\ ftask.conn = "none"
    /\ \E r \in {_send_syn(NewForwarded(iss))} :
          /\ fconn' = r.conn
          /\ fout' = << r.seg >>
          /\ fsent' = Append(fsent, r.seg)
    /\ ftask' = [ftask EXCEPT !.conn = "polling", !.reader = "reading"]
    /\ UNCHANGED <<client, offFwd>>

\* handle_client's finally block
CloseClient(conn) == [conn EXCEPT !.local_writer = "closed", !.listed = FALSE]

\* _handle_connection, from one suspension to the next.  Polling: a second of
\* sleep(0.1) iterations has passed, or the loop is left (ESTABLISHED, or
\* more than connect_timeout seconds waited).  Joined: read_task has
\* returned; a FIN is sent if the state is still ESTABLISHED.
_handle_connection ==
    /\ UNCHANGED <<client, fsent, offFwd>>
    /\ \/ /\ ftask.conn = "polling"
          /\ IF fconn.state = "ESTABLISHED"
             THEN /\ ftask' = [ftask EXCEPT !.conn = "joined"]
                  /\ UNCHANGED fconn
             ELSE IF ftask.waited > connect_timeout
             THEN /\ ftask' = [ftask EXCEPT !.conn = "done"]
                  /\ fconn' = CloseClient(fconn)
             ELSE /\ ftask' = [ftask EXCEPT !.waited = @ + 1]
                  /\ UNCHANGED fconn
          /\ fout' = << >>
       \/ /\ ftask.conn = "joined"
          /\ ftask.reader = "done"
          /\ ftask' = [ftask EXCEPT !.conn = "done"]
          /\ IF fconn.state = "ESTABLISHED"
             THEN /\ fout' = << _send_fin(fconn) >>
                  /\ fconn' = CloseClient([fconn EXCEPT !.state = "FIN_SENT"])
             ELSE /\ fout' = << >>
                  /\ fconn' = CloseClient(fconn)

\* the loop condition of _read_from_client
ReaderGoesOn(conn) == conn.state \in {"SYN_SENT", "ESTABLISHED"}

\* _read_from_client, from one suspension to the next.  Reading: wait_for
\* returns n > 0 octets, which are buffered before ESTABLISHED and sent in a
\* segment after (the coroutine then awaits the drain); n = 0: b'', the
\* client closed; n = -1: TimeoutError.  Sending: _send_data goes on after
\* its await and advances seq_num.
_read_from_client(n) ==
    /\ UNCHANGED offFwd
    /\ \/ /\ ftask.reader = "reading"
          /\ IF n > 0
             THEN /\ ~client.closed /\ fconn.local_writer = "open"
                  /\ client.read + n <= MaxClientBytes
                  /\ client' = [client EXCEPT !.read = @ + n]
                  /\ LET data == ClientBytes(client.read, n)
                     IN IF fconn.state # "ESTABLISHED"
                        THEN /\ fconn' = [fconn EXCEPT !.buffer = @ \o data]
                             /\ ftask' = [ftask EXCEPT !.reader =
                                   IF ReaderGoesOn(fconn) THEN "reading"
                                   ELSE "done"]
                             /\ fout' = << >>
                             /\ UNCHANGED fsent
                        ELSE /\ fout' = << DataSegment(fconn, data) >>
                             /\ fsent' = Append(fsent, DataSegment(fconn, data))
                             /\ ftask' = [ftask EXCEPT !.reader = "sending",
                                                       !.sending = data]
                             /\ UNCHANGED fconn
             ELSE /\ IF n = 0
                     THEN /\ client.closed \/ fconn.local_writer = "closed"
                          /\ ftask' = [ftask EXCEPT !.reader = "done"]
                     ELSE /\ ~client.closed /\ fconn.local_writer = "open"
                          /\ ftask' = [ftask EXCEPT !.reader =
                                IF ReaderGoesOn(fconn) THEN "reading"
                                ELSE "done"]
                  /\ fout' = << >>
                  /\ UNCHANGED <<fconn, client, fsent>>
       \/ /\ ftask.reader = "sending"
          /\ n = 0 - 1
          /\ LET c == [fconn EXCEPT !.seq_num = @ + Len(ftask.sending)]
             IN /\ fconn' = c
                /\ ftask' = [ftask EXCEPT !.sending = << >>, !.reader =
                                IF ReaderGoesOn(c) THEN "reading" ELSE "done"]
          /\ fout' = << >>
          /\ UNCHANGED <<client, fsent>>

\* the local client closes its end
ClientCloses ==
    /\ fconn # NoConn
    /\ ~client.closed
    /\ client' = [client EXCEPT !.closed = TRUE]
    /\ fout' = << >>
    /\ UNCHANGED <<fconn, ftask, fsent, offFwd>>

\* handle_incoming_packet for a segment of a listed flow, up to its first
\* await.  SYN+ACK in SYN_SENT: the state becomes ESTABLISHED and the ACK is
\* written; the coroutine awaits the drain.  In ESTABLISHED: an
\* acknowledgment beyond seq_num moves seq_num up; a FIN is acknowledged and
\* the client's writer closed.
handle_incoming_packet(seg) ==
    /\ fconn # NoConn
    /\ fconn.listed
    /\ ftask.handler = "idle"
    /\ UNCHANGED <<client, fsent, offFwd>>
    /\ IF fconn.state = "SYN_SENT" /\ {"SYN", "ACK"} \subseteq seg.flags
       THEN LET c == [fconn EXCEPT !.ack_num = seg.seq + 1,
                                   !.state = "ESTABLISHED"]
            IN /\ fconn' = c
               /\ fout' = << _send_ack(c) >>
               /\ ftask' = [ftask EXCEPT !.handler = "acked"]
       ELSE IF fconn.state = "ESTABLISHED"
       THEN LET c1 == IF "ACK" \in seg.flags /\ seg.ack > fconn.seq_num
                      THEN [fconn EXCEPT !.seq_num = seg.ack] ELSE fconn
                c2 == IF "FIN" \in seg.flags
                      THEN [c1 EXCEPT !.state = "CLOSE_WAIT",
                                      !.ack_num = seg.seq + 1,
                                      !.local_writer = "closed"]
                      ELSE c1
            IN /\ fconn' = c2
               /\ fout' = IF "FIN" \in seg.flags THEN << _send_ack(c2) >>
                          ELSE << >>
               /\ UNCHANGED ftask
       ELSE /\ fout' = << >>
            /\ UNCHANGED <<fconn, ftask>>

\* handle_incoming_packet for the SYN+ACK, going on after an await.  Acked:
\* the buffered octets, if any, are written in one segment and the drain is
\* awaited.  Flushing: _send_data advances seq_num, then the buffer is
\* emptied.
SynAckResume ==
    /\ UNCHANGED <<client, offFwd>>
    /\ \/ /\ ftask.handler = "acked"
          /\ UNCHANGED fconn
          /\ IF fconn.buffer # << >>
             THEN /\ fout' = << DataSegment(fconn, fconn.buffer) >>
                  /\ fsent' = Append(fsent, DataSegment(fconn, fconn.buffer))
                  /\ ftask' = [ftask EXCEPT !.handler = "flushing"]
             ELSE /\ fout' = << >>
                  /\ ftask' = [ftask EXCEPT !.handler = "idle"]
                  /\ UNCHANGED fsent
       \/ /\ ftask.handler = "flushing"
          /\ fconn' = [fconn EXCEPT !.seq_num = @ + Len(fconn.buffer),
                                    !.buffer = << >>]
          /\ ftask' = [ftask EXCEPT !.handler = "idle"]
          /\ fout' = << >>
          /\ UNCHANGED fsent

NextFwd ==
    \/ \E iss \in IssValues : handle_client(iss)
    \/ _handle_connection
    \/ \E n \in (0 - 1)..MaxClientBytes : _read_from_client(n)
    \/ ClientCloses
    \/ \E seg \in (IF fconn = NoConn THEN {}
                   ELSE ServerSegs(fconn.initial_seq)) :
          handle_incoming_packet(seg)
    \/ SynAckResume

SpecFwd == InitFwd /\ [][NextFwd]_vars

\* ------------------------------------------------------------------------
\* TCPPortForwarder's synthetic ports: handle_client takes the next port of
\* the counter, enters the connection in forwarder.connections under it and
\* removes that entry when it ends.  The counter runs from PoolFirst to
\* PoolLast and starts again.
\* ------------------------------------------------------------------------
MaxAccepts == 4

\* _get_next_synthetic_port: the port returned and the counter after it
_get_next_synthetic_port(next) ==
    [port |-> next,
     next |-> IF next + 1 > PoolLast THEN PoolFirst ELSE next + 1]

\* connections[port] = conn, and del connections[port]
SetEntry(table, port, c) ==
    [p \in (DOMAIN table) \cup {port} |-> IF p = port THEN c ELSE table[p]]
DelEntry(table, port) == [p \in (DOMAIN table) \ {port} |-> table[p]]

\* the forwarder as constructed, or after PoolLast - PoolFirst clients have
\* been accepted of which the first is still connected and the others have
\* gone: the counter stands at the last port of the pool
InitPorts ==
    /\ InitBridge
    /\ IdleNeg
    /\ IdleCodec
    /\ IdleProxy
    /\ IdleFwd
    /\ IdleAux
    /\ accepted = 0
    /\ \/ IdlePorts
       \/ /\ next_synthetic_port = PoolLast
          /\ \E c \in FwdClients :
                /\ fwd_connections = SetEntry(<< >>, PoolFirst, c)
                /\ handlers = [d \in FwdClients |->
                                  IF d = c THEN PoolFirst ELSE 0]

offPorts == <<bridgeVars, negVars, codecVars, bidiVars, fwdVars, auxVars>>

\* handle_client up to its first await, for a client that connects
AcceptClient(c) ==
    /\ handlers[c] = 0
    /\ accepted < MaxAccepts
    /\ \E r \in {_get_next_synthetic_port(next_synthetic_port)} :
          /\ next_synthetic_port' = r.next
          /\ fwd_connections' = SetEntry(fwd_connections, r.port, c)
          /\ handlers' = [handlers EXCEPT ![c] = r.port]
    /\ accepted' = accepted + 1
    /\ UNCHANGED offPorts

\* handle_client's finally block, when the connection of client c ends
FinishClient(c) ==
    /\ handlers[c] # 0
    /\ fwd_connections' =
          IF handlers[c] \in DOMAIN fwd_connections
          THEN DelEntry(fwd_connections, handlers[c])
          ELSE fwd_connections
    /\ handlers' = [handlers EXCEPT ![c] = 0]
    /\ UNCHANGED <<next_synthetic_port, accepted, offPorts>>

NextPorts ==
    \/ \E c \in FwdClients : AcceptClient(c)
    \/ \E c \in FwdClients : FinishClient(c)

SpecPorts == InitPorts /\ [][NextPorts]_vars

\* ------------------------------------------------------------------------
\* The bridge's negotiator in either role (AsyncPPPBridge.__init__ makes it
\* a server when local_ip is 10.0.0.1, a client otherwise), fed control
\* packets whose Configure-Requests carry one or two options of every kind,
\* in both orders
\* ------------------------------------------------------------------------
UnknownOption == 99

LcpOptions ==
    { Opt(LCP_MAGIC_NUMBER, 6, PeerMagic), Opt(LCP_MRU, 4, DefaultMRU),
      Opt(LCP_MRU, 4, MinMRU - 1), Opt(LCP_AUTH_PROTOCOL, 4, 0),
      Opt(UnknownOption, 2, 0) }

IpcpOptions ==
    { Opt(IPCP_IP_ADDRESS, 6, ClientIP), Opt(IPCP_IP_ADDRESS, 6, HostIP),
      Opt(IPCP_PRIMARY_DNS, 6, 0), Opt(IPCP_SECONDARY_DNS, 6, 0),
      Opt(IPCP_IP_COMPRESSION, 4, 0), Opt(UnknownOption, 2, 0) }

OptionLists(pool) == {<< a >> : a \in pool} \cup {<< a, b >> : a, b \in pool}

CtlPackets ==
    {create_ppp_packet(PPP_LCP, CONFIGURE_REQUEST, 1, os) :
        os \in OptionLists(LcpOptions)}
    \cup {create_ppp_packet(PPP_IPCP, CONFIGURE_REQUEST, 1, os) :
             os \in OptionLists(IpcpOptions)}
    \cup {create_ppp_packet(proto, code, id, << >>) :
             proto \in {PPP_LCP, PPP_IPCP},
             code \in {CONFIGURE_ACK, CONFIGURE_NAK},
             id \in 1..MaxIdent}
    \cup {create_ppp_packet(PPP_LCP, CONFIGURE_REJECT, id,
                            << Opt(LCP_PROTOCOL_COMPRESSION, 2, 0) >>) :
             id \in 1..MaxIdent}
    \cup {create_ppp_packet(PPP_IPCP, CONFIGURE_REJECT, id,
                            << Opt(IPCP_IP_ADDRESS, 6, a) >>) :
             id \in 1..MaxIdent, a \in {HostIP, ClientIP}}

InitCtl ==
    /\ IdleNeg
    /\ IdleExt
    /\ session = "init"
    /\ closeCause = "none"
    /\ \E m \in HostMagics :
          ppp \in {NewNegotiator(HostIP, ClientIP, TRUE, m),
                   NewNegotiator(ClientIP, HostIP, FALSE, m)}
    /\ clock = StartTime
    /\ connections = [f \in Flows |-> NoConn]
    /\ pending = [f \in Flows |-> FALSE]
    /\ hc_tasks = [f \in Flows |-> 0]
    /\ service_tasks = [f \in Flows |-> "none"]
    /\ orphans = [f \in Flows |-> 0]
    /\ opened = [f \in Flows |-> 0]
    /\ svc_written = [f \in Flows |-> << >>]
    /\ timers = << >>
    /\ out = << >>
    /\ rx = NoPacket
    /\ ev = "init"

NextCtl ==
    \/ BridgeStart
    \/ \E packet \in CtlPackets, rnd \in HostMagics : HostPppFrame(packet, rnd)

SpecCtl == InitCtl /\ [][NextCtl]_vars

\* ------------------------------------------------------------------------
\* The TCP stack and its timer task with a connection that is being closed
\* from the host's side.  Nothing in pySLiRP.py sends a FIN or sets
\* FIN_WAIT_1, so the handlers of the closing states run only for a
\* connection that a caller of process_tcp_segment has put there: the
\* specification starts with one in FIN_WAIT_2, the host's FIN acknowledged.
\* ------------------------------------------------------------------------
TwStep == 120
MaxTwClock == 480
MaxTwTimers == 3

FinWait2Connection(iss) ==
    [NewConnection(iss) EXCEPT !.state = "FIN_WAIT_2",
                               !.initial_ack = PeerISS,
                               !.rcv_nxt = PeerISS + 1,
                               !.seq_num = iss + 2,
                               !.snd_una = iss + 2,
                               !.snd_nxt = iss + 2]

InitTW ==
    /\ session = "running"
    /\ closeCause = "none"
    /\ \E m \in HostMagics : ppp = NegotiatedPPP(m)
    /\ clock = StartTime
    /\ \E iss \in IssValues :
          connections = [f \in Flows |-> IF f = FlowA
                                         THEN FinWait2Connection(iss)
                                         ELSE NoConn]
    /\ pending = [f \in Flows |-> FALSE]
    /\ hc_tasks = [f \in Flows |-> 0]
    /\ service_tasks = [f \in Flows |-> "none"]
    /\ orphans = [f \in Flows |-> 0]
    /\ opened = [f \in Flows |-> 0]
    /\ svc_written = [f \in Flows |-> << >>]
    /\ timers = << >>
    /\ out = << >>
    /\ rx = NoPacket
    /\ ev = "init"
    /\ IdleNeg
    /\ IdleExt

\* the peer's FIN and the segments it may send after it
ClosingSegs(conn) ==
    { Seg(FlowA, PeerISS + 1, conn.snd_nxt, {"FIN", "ACK"}, 0),
      Seg(FlowA, PeerISS + 2, conn.snd_nxt, {"ACK"}, 0) }

\* AsyncTCPStack.process_tcp_segment for a segment of the flow
StackSegment(seg) ==
    /\ session = "running"
    /\ connections[seg.flow] # NoConn
    /\ \E r \in {process_tcp_segment(connections[seg.flow], seg, 0, clock)} :
          /\ Len(timers) + Len(r.timers) <= MaxTwTimers
          /\ connections' = [connections EXCEPT ![seg.flow] = r.conn]
          /\ timers' = AddTimers(timers, r.timers)
          /\ out' = r.resp
    /\ rx' = seg
    /\ ev' = "frame"
    /\ UNCHANGED <<session, closeCause, ppp, clock, proxyVars, offBridge>>

\* TwStep seconds pass without a segment
TimePasses ==
    /\ session = "running"
    /\ clock + TwStep <= StartTime + MaxTwClock
    /\ Expired(timers, clock) = {}
    /\ clock' = clock + TwStep
    /\ out' = << >>
    /\ ev' = "time"
    /\ UNCHANGED <<session, closeCause, ppp, connections, proxyVars, timers,
                   rx, offBridge>>

NextTW ==
    \/ \E seg \in ClosingSegs(connections[FlowA]) : StackSegment(seg)
    \/ TimePasses
    \/ ProcessTimers

SpecTW == InitTW /\ [][NextTW]_vars

\* ------------------------------------------------------------------------
\* The TCP stack with an ESTABLISHED connection whose service sends data:
\* the peer answers with acknowledgments, among them duplicates.  dupacks
\* records how many duplicate ACKs have arrived in a row.
\* ------------------------------------------------------------------------
MaxDupAcks == 4
MaxCcBytes == 4

\* the connection after SYN and ACK of the peer, its service socket attached
EstablishedConnection(iss) ==
    LET syn == Seg(FlowA, PeerISS, 0, {"SYN"}, 0)
        ack == Seg(FlowA, PeerISS + 1, iss + 1, {"ACK"}, 0)
        c1  == process_segment(NewConnection(iss), syn, StartTime).conn
        c2  == process_segment(c1, ack, StartTime).conn
    IN [c2 EXCEPT !.local_sock = "open"]

InitCC ==
    /\ session = "running"
    /\ closeCause = "none"
    /\ \E m \in HostMagics : ppp = NegotiatedPPP(m)
    /\ clock = StartTime
    /\ \E iss \in IssValues :
          connections = [f \in Flows |-> IF f = FlowA
                                         THEN EstablishedConnection(iss)
                                         ELSE NoConn]
    /\ pending = [f \in Flows |-> FALSE]
    /\ hc_tasks = [f \in Flows |-> 0]
    /\ service_tasks = [f \in Flows |-> "none"]
    /\ orphans = [f \in Flows |-> 0]
    /\ opened = [f \in Flows |-> 0]
    /\ svc_written = [f \in Flows |-> << >>]
    /\ timers = << >>
    /\ out = << >>
    /\ rx = NoPacket
    /\ ev = "init"
    /\ IdleNeg
    /\ IdleExt

offStack == <<negVars, codecVars, bidiVars, fwdVars, portVars>>

\* the service's data goes out: the send of AsyncServiceProxy's forwarding
\* loop (seq = conn.seq_num, then seq_num += len(data))
SendServiceData(n) ==
    /\ connections[FlowA].state = "ESTABLISHED"
    /\ connections[FlowA].seq_num + n
          <= connections[FlowA].initial_seq + MaxCcBytes
    /\ out' = << TcpOut(FlowA, connections[FlowA].seq_num,
                        connections[FlowA].rcv_nxt, {"PSH", "ACK"},
                        [i \in 1..n |-> 0]) >>
    /\ connections' = [connections EXCEPT ![FlowA].seq_num = @ + n]
    /\ ev' = "forward"
    /\ UNCHANGED <<session, closeCause, ppp, clock, proxyVars, timers, rx,
                   offStack, auxVars>>

\* data the host has sent is outstanding
HasUnacked(conn) == conn.seq_num > conn.initial_seq

\* an acknowledgment that repeats snd_una while data is outstanding
IsDuplicateAck(conn, seg) ==
    /\ conn.state = "ESTABLISHED"
    /\ HasUnacked(conn)
    /\ seg.flags = {"ACK"}
    /\ seg.len = 0
    /\ seg.ack = conn.snd_una

\* the acknowledgments the peer may send
PeerAcks(conn) ==
    {Seg(FlowA, PeerISS + 1, conn.initial_seq + d, {"ACK"}, 0) :
        d \in 1..(MaxCcBytes + 1)}

\* AsyncTCPStack.process_tcp_segment for an acknowledgment of the peer
AckSegment(seg) ==
    /\ dupacks' = IF IsDuplicateAck(connections[FlowA], seg)
                  THEN dupacks + 1 ELSE 0
    /\ dupacks' <= MaxDupAcks
    /\ \E r \in {process_tcp_segment(connections[FlowA], seg, 0, clock)} :
          /\ connections' = [connections EXCEPT ![FlowA] = r.conn]
          /\ timers' = AddTimers(timers, r.timers)
          /\ out' = r.resp
    /\ rx' = seg
    /\ ev' = "frame"
    /\ UNCHANGED <<session, closeCause, ppp, clock, proxyVars, offStack,
                   handling>>

NextCC ==
    \/ \E n \in 1..2 : SendServiceData(n)
    \/ \E seg \in PeerAcks(connections[FlowA]) : AckSegment(seg)

SpecCC == InitCC /\ [][NextCC]_vars

\* ------------------------------------------------------------------------
\* The negotiated host bridge with its tasks interleaved as the event loop
\* interleaves them: serial_reader's handling of a SYN for a service port is
\* suspended in connect_to_service until the connection attempt ends, and
\* tcp_timer_handler, keepalive_handler and the proxy tasks run meanwhile.
\* handling is the segment whose handling is suspended.
\* ------------------------------------------------------------------------
offConc == <<negVars, codecVars, bidiVars, fwdVars, portVars, dupacks>>

ConcSegs(f, iss) ==
    { Seg(f, PeerISS, 0, {"SYN"}, 0),
      Seg(f, PeerISS + 1, iss + 1, {"ACK"}, 0),
      Seg(f, PeerISS + 1, iss + 1, {"FIN", "ACK"}, 0) }

\* handle_tcp_packet up to its await of connect_to_service
ReceiveSyn(seg) ==
    /\ session = "running"
    /\ handling = NoPacket
    /\ is_ready_for_ip(ppp)
    /\ parse_packet(seg) # NoPacket
    /\ ConnectsAtSyn(seg)
    /\ handling' = seg
    /\ rx' = seg
    /\ out' = << >>
    /\ ev' = "connecting"
    /\ UNCHANGED <<session, closeCause, ppp, clock, connections, proxyVars,
                   timers, offConc>>

\* connect_to_service returns (ok: with a socket) and handle_tcp_packet goes
\* on to process_tcp_segment
ConnectDone(ok, iss) ==
    /\ handling # NoPacket
    /\ handle_tcp_packet(handling, ok, iss)
    /\ handling' = NoPacket
    /\ UNCHANGED offConc

\* a segment that needs no service socket is handled without suspension
HandleSegment(seg, iss) ==
    /\ handling = NoPacket
    /\ ~ConnectsAtSyn(seg)
    /\ HostIpFrame(seg, TRUE, iss)

NextConc ==
    \/ \E f \in Flows : \E b \in KnownISS(f) :
          /\ \A g \in Flows \ {f} : connections[g] = NoConn
          /\ \E seg \in ConcSegs(f, b) :
                \/ ReceiveSyn(seg)
                \/ \E iss \in IssValues :
                      DrawsFor(seg, TRUE, iss) /\ HandleSegment(seg, iss)
    \/ /\ handling # NoPacket
       /\ \E ok \in BOOLEAN, iss \in IssValues :
             DrawsFor(handling, ok, iss) /\ ConnectDone(ok, iss)
    \/ KeepaliveTick(MaxTicks)
    \/ ProcessTimers
    \/ \E f \in Flows, ok \in BOOLEAN : HandleConnection(f, ok)
    \/ \E f \in Flows, n \in (0 - 1)..MaxSvcBytes : ForwardServiceData(f, n)

SpecConc == InitTCP /\ [][NextConc]_vars

\* ------------------------------------------------------------------------
\* The negotiated host bridge and a peer whose sequence numbers are about to
\* pass 2^32.  The code computes with unbounded integers; the 32-bit width
\* shows where a header is packed.  In this specification a sequence number
\* of the peer (seq of its segments, rcv_nxt, initial_ack, the ack field of
\* the host's segments that carry ACK) is written as its distance to 2^32:
\* -1 stands for 2^32 - 1 and WrapPoint for 2^32, the first value the field
\* cannot hold.  The code only adds to and compares these numbers, so the
\* translation is exact.  The host's own numbers stay far below 2^32
\* (random.randint(1, 0x7FFFFFFF)) and are written as they are.
\* ------------------------------------------------------------------------
WrapPoint == 0
MaxWrapDistance == 4
WrapISS == {WrapPoint - d : d \in 1..MaxWrapDistance}

\* struct.pack('!HHIIBBHHH', ...) in create_tcp_segment raises struct.error
\* for an ack above 2^32 - 1
pack_fails(resp) ==
    \E i \in DOMAIN resp : "ACK" \in resp[i].flags /\ resp[i].ack >= WrapPoint

\* the peer's next segment: its SYN, then acknowledgments with or without
\* data and a FIN, all in sequence
WrapSegs(conn) ==
    IF conn = NoConn
    THEN {Seg(FlowA, d, 0, {"SYN"}, 0) : d \in WrapISS}
    ELSE {Seg(FlowA, conn.rcv_nxt, conn.snd_nxt, {"ACK"}, n) : n \in 0..2}
         \cup {Seg(FlowA, conn.rcv_nxt, conn.snd_nxt, {"FIN", "ACK"}, 0)}

\* process_tcp_segment for a segment of the peer; an exception that leaves
\* it ends serial_reader's loop
WrapSegment(seg, iss) ==
    /\ session = "running"
    /\ \E r \in {process_tcp_segment(connections[FlowA], seg, iss, clock)} :
          LET fails == r.exc \/ pack_fails(r.resp)
          IN /\ Len(timers) + Len(r.timers) <= MaxTimers
             /\ connections' = [connections EXCEPT ![FlowA] = r.conn]
             /\ timers' = IF pack_fails(r.resp) THEN timers
                          ELSE AddTimers(timers, r.timers)
             /\ out' = IF fails THEN << >> ELSE r.resp
             /\ session' = IF fails THEN "closed" ELSE session
             /\ closeCause' = IF fails THEN "handler_exception"
                              ELSE closeCause
    /\ rx' = seg
    /\ ev' = "frame"
    /\ UNCHANGED <<ppp, clock, proxyVars, offBridge>>

NextWrap ==
    \/ \E seg \in WrapSegs(connections[FlowA]), iss \in KnownISS(FlowA) :
          WrapSegment(seg, iss)
    \/ KeepaliveTick(MaxTicks)
    \/ ProcessTimers

SpecWrap == InitTCP /\ [][NextWrap]_vars

\* ------------------------------------------------------------------------
\* Properties
\* ------------------------------------------------------------------------
\* the step just taken was serial_reader handing a TCP segment to
\* handle_tcp_packet
TcpStep == ev' = "frame" /\ rx'.proto = PPP_IP /\ rx' # BadIpFrame

BothOpened(n) == n.lcp_state = "OPENED" /\ n.ipcp_state = "OPENED"

\* open service sockets of a flow: the one waiting in pending_connections, the
\* one the connection holds, and the ones nothing refers to
LiveSockets(f) ==
    (IF pending[f] THEN 1 ELSE 0)
    + (IF connections[f] # NoConn /\ connections[f].local_sock = "open"
       THEN 1 ELSE 0)
    + orphans[f]

\* C1: the bytes written to a flow's service socket, together with those
\* waiting to be written, are exactly the bytes of the peer's stream the
\* connection has accepted in order: those from the peer's initial sequence
\* number + 1 up to rcv_nxt, once each and in order.
C1_InOrderDelivery ==
    \A f \in Flows :
        LET c == connections[f]
        IN (c # NoConn /\ c.state \in {"SYN_RCVD", "ESTABLISHED"}) =>
              svc_written[f] \o c.send_buffer
                  = Bytes(c.initial_ack + 1, c.rcv_nxt - (c.initial_ack + 1))

\* C2: a data segment forward_service_data sends carries seq = snd_nxt and
\* ack = rcv_nxt, and snd_nxt advances by its length.
C2_ServiceSegments ==
    [][\A f \in Flows :
          (ev' = "forward" /\ out' # << >> /\ out'[1].flow = f) =>
              /\ out'[1].seq = connections[f].snd_nxt
              /\ out'[1].ack = connections[f].rcv_nxt
              /\ connections'[f].snd_nxt
                    = connections[f].snd_nxt + Len(out'[1].data)]_vars

\* C3: a SYN with sequence number s for a flow not in the table creates the
\* connection, is answered by SYN+ACK with seq = iss and ack = s + 1, and
\* leaves SYN_RCVD with rcv_nxt = s + 1, snd_una = iss, snd_nxt = iss + 1; in
\* SYN_RCVD a segment in the window that carries ACK and not RST moves the
\* connection to ESTABLISHED exactly when snd_una <= ack <= snd_nxt.
C3_Handshake ==
    [][(TcpStep /\ session = "running" /\ BothOpened(ppp)) =>
          LET seg == rx'
              c   == connections[seg.flow]
              c2  == connections'[seg.flow]
          IN /\ (c = NoConn /\ seg.flags = {"SYN"}) =>
                   /\ c2 # NoConn
                   /\ c2.state = "SYN_RCVD"
                   /\ c2.rcv_nxt = seg.seq + 1
                   /\ c2.snd_una = c2.initial_seq
                   /\ c2.snd_nxt = c2.initial_seq + 1
                   /\ out' = << TcpOut(seg.flow, c2.initial_seq, seg.seq + 1,
                                       {"SYN", "ACK"}, << >>) >>
             /\ (/\ c # NoConn
                 /\ c.state = "SYN_RCVD"
                 /\ "ACK" \in seg.flags
                 /\ "RST" \notin seg.flags
                 /\ c.rcv_nxt <= seg.seq
                 /\ seg.seq < c.rcv_nxt + rcv_wnd) =>
                   (c2.state = "ESTABLISHED"
                      <=> (c.snd_una <= seg.ack /\ seg.ack <= c.snd_nxt))]_vars

\* a handshake has just completed on an acknowledgment of the SYN+ACK
C3_Witness ==
    /\ ev = "frame"
    /\ rx.proto = PPP_IP
    /\ rx # BadIpFrame
    /\ rx.flags = {"ACK"}
    /\ connections[rx.flow] # NoConn
    /\ connections[rx.flow].state = "ESTABLISHED"
    /\ rx.ack = connections[rx.flow].snd_nxt
    /\ hc_tasks[rx.flow] = 1
    /\ opened[rx.flow] = 1

\* C4: the serial session ends only on a serial transport error (or end of
\* input) or a failed negotiation, never on an error of one flow.
C4_SessionSurvivesFlowErrors ==
    session = "closed" =>
        closeCause \in {"eof", "transport_error", "negotiation_failed"}

\* C5: over the lossless in-order link the two negotiators eventually have
\* both LCP and IPCP OPENED, and stay so.
C5_BothOpen == <>[](\A side \in Sides : BothOpened(peers[side]))

C5_Witness ==
    /\ \A side \in Sides : started[side] /\ BothOpened(peers[side])
    /\ \A side \in Sides : link[side] = << >>

\* C6: an IP frame that arrives while LCP or IPCP is not OPENED is dropped:
\* no connection is created or changed, nothing of the proxy changes, no
\* timer is armed and nothing is sent.
C6_IpGate ==
    [][(ev' = "frame" /\ rx'.proto = PPP_IP /\ session = "running"
          /\ ~BothOpened(ppp)) =>
          /\ connections' = connections
          /\ proxyVars' = proxyVars
          /\ timers' = timers
          /\ session' = session
          /\ out' = << >>]_vars

\* a segment for an existing connection was dropped because the link had
\* gone back to negotiating
C6_Witness ==
    /\ ev = "frame"
    /\ rx.proto = PPP_IP
    /\ rx # BadIpFrame
    /\ ~BothOpened(ppp)
    /\ connections[rx.flow] # NoConn
    /\ connections[rx.flow].state = "SYN_RCVD"
    /\ rx.flags = {"ACK"}

\* C7: a service socket is opened for a connection only once it is
\* ESTABLISHED and has taken in-order data, and only one is ever opened.
C7_SetupOnFirstData ==
    \A f \in Flows :
        opened[f] > 0 =>
            /\ opened[f] = 1
            /\ connections[f] # NoConn
            /\ connections[f].state \in {"ESTABLISHED", "CLOSE_WAIT", "CLOSED"}
            /\ connections[f].rcv_nxt > connections[f].initial_ack + 1

\* C8: a connection has at most one open service socket, and once its state
\* has left ESTABLISHED / CLOSE_WAIT it has none and no proxy task.
C8_SocketsFollowState ==
    \A f \in Flows :
        /\ LiveSockets(f) <= 1
        /\ (connections[f] # NoConn /\ connections[f].state = "CLOSED") =>
              /\ LiveSockets(f) = 0
              /\ service_tasks[f] = "none"
              /\ hc_tasks[f] = 0

\* C9: when the retransmission timer of an unacknowledged SYN+ACK expires,
\* the SYN+ACK is sent again (or, the retries being used up, an RST) and the
\* timer is armed again.
C9_Retransmission ==
    [][\A f \in Flows :
          (/\ ev' = "timers"
           /\ \E i \in Expired(timers, clock) :
                 timers[i].conn_id = f /\ timers[i].type = "RETRANSMISSION"
           /\ connections[f].state = "SYN_RCVD") =>
              \E i \in 1..Len(out') :
                  /\ out'[i].proto = PPP_IP
                  /\ out'[i].flow = f
                  /\ \/ out'[i].flags = {"SYN", "ACK"}
                     \/ "RST" \in out'[i].flags]_vars

\* C10: a Configure-Request that has gone unanswered for restart_timer
\* seconds is sent again at the next keepalive pass (or, the retries being
\* used up, the session is ended).
C10_RestartTimer ==
    [][(/\ ev' = "keepalive"
        /\ ppp.lcp_state \in {"REQUEST_SENT", "ACK_SENT"}
        /\ \E e \in ppp.awaiting_response :
              e.key[1] = "lcp" /\ clock' - e.t >= restart_timer) =>
          \/ session' = "closed"
          \/ \E i \in 1..Len(out') :
                out'[i].proto = PPP_LCP /\ out'[i].code = CONFIGURE_REQUEST]_vars

\* the Configure-Requests among the packets a step wrote
ConfReqs(pkts) ==
    {i \in 1..Len(pkts) :
        pkts[i].proto = PPP_LCP /\ pkts[i].code = CONFIGURE_REQUEST}

\* C11: start_negotiation makes the client send exactly one LCP
\* Configure-Request and enter REQUEST_SENT, and the server send nothing and
\* enter STARTING; while the server is in STARTING (it has not yet received
\* a Configure-Request) the only step in which it sends a Configure-Request
\* is the processing of the peer's Configure-Request.
C11_ServerWaits ==
    [][/\ (ev' = "start" /\ ppp.is_server) =>
              (out' = << >> /\ ppp'.lcp_state = "STARTING")
       /\ (ev' = "start" /\ ~ppp.is_server) =>
              (/\ Len(out') = 1
               /\ ConfReqs(out') = {1}
               /\ ppp'.lcp_state = "REQUEST_SENT")
       /\ (/\ session = "running"
           /\ ppp.is_server
           /\ ppp.lcp_state = "STARTING"
           /\ ConfReqs(out') # {}) =>
              (/\ ev' = "frame"
               /\ rx'.proto = PPP_LCP
               /\ rx'.code = CONFIGURE_REQUEST)]_vars

\* the keepalive pass of a server that is still waiting in STARTING more
\* than negotiation_timeout after start_negotiation
LateKeepalive ==
    /\ ev' = "keepalive"
    /\ ppp.is_server
    /\ ppp.lcp_state = "STARTING"
    /\ ~ppp.negotiation_initiated
    /\ clock' - ppp.negotiation_start_time > negotiation_timeout

C13_AckBeforeRequest ==
    [][(/\ ev' = "frame"
        /\ rx'.proto = PPP_LCP
        /\ rx'.code = CONFIGURE_REQUEST
        /\ ppp.is_server
        /\ ppp.lcp_state = "STARTING"
        /\ ~ppp.negotiation_initiated) =>
          \A i \in 1..Len(out'), j \in 1..Len(out') :
              (/\ out'[i].proto = PPP_LCP
               /\ out'[i].code = CONFIGURE_ACK
               /\ j \in ConfReqs(out')) => i < j]_vars

\* the data lengths of the segments of a retransmit queue, summed
RECURSIVE QueuedBytes(_)
QueuedBytes(queue) ==
    IF queue = << >> THEN 0
    ELSE Len(Head(queue).data) + QueuedBytes(Tail(queue))

\* C14: every connection of the table has snd_una <= snd_nxt, and its
\* bytes_in_flight is the sum of the data lengths of its retransmit queue.
C14_SendWindow ==
    \A f \in Flows :
        connections[f] # NoConn =>
            /\ connections[f].snd_una <= connections[f].snd_nxt
            /\ connections[f].bytes_in_flight
                  = QueuedBytes(connections[f].retransmit_queue)

\* the peer has acknowledged the SYN+ACK once more after the service sent
\* data on the established connection
C14_Witness ==
    /\ ev = "frame"
    /\ rx.proto = PPP_IP
    /\ rx # BadIpFrame
    /\ "ACK" \in rx.flags
    /\ connections[rx.flow] # NoConn
    /\ connections[rx.flow].state = "ESTABLISHED"
    /\ connections[rx.flow].seq_num > connections[rx.flow].initial_seq
    /\ connections[rx.flow].snd_una = connections[rx.flow].snd_nxt
    /\ rx.ack = connections[rx.flow].snd_nxt

\* the advance of rcv_nxt that reading seg in sequence allows: the bytes of
\* seg from rcv_nxt on when seg starts at or before rcv_nxt, and one more
\* for a FIN that then sits at rcv_nxt
InSeqAdvance(c, seg) ==
    LET fresh == IF /\ seg.len > 0
                    /\ seg.seq <= c.rcv_nxt
                    /\ c.rcv_nxt < seg.seq + seg.len
                 THEN seg.seq + seg.len - c.rcv_nxt ELSE 0
        fin   == IF "FIN" \in seg.flags /\ seg.seq + seg.len = c.rcv_nxt + fresh
                 THEN 1 ELSE 0
    IN fresh + fin

\* C15: a SYN that opens a connection sets rcv_nxt to its sequence number
\* plus one; afterwards a segment never lowers rcv_nxt, and raises it only
\* by what it carries in sequence (InSeqAdvance): nothing for a segment or
\* a FIN beyond a gap.
C15_RcvNxt ==
    [][(TcpStep /\ session = "running" /\ BothOpened(ppp)) =>
          LET seg == rx'
              c   == connections[seg.flow]
              c2  == connections'[seg.flow]
          IN /\ (c = NoConn /\ c2 # NoConn /\ c2.state = "SYN_RCVD") =>
                   c2.rcv_nxt = seg.seq + 1
             /\ (/\ c # NoConn
                 /\ c.state \in {"SYN_RCVD", "ESTABLISHED", "CLOSE_WAIT"}) =>
                   /\ c2.rcv_nxt >= c.rcv_nxt
                   /\ (c2.rcv_nxt > c.rcv_nxt) =>
                         (c2.rcv_nxt - c.rcv_nxt = InSeqAdvance(c, seg))]_vars

\* the bytes of seg have been taken in sequence before: they are among those
\* written to the service socket or waiting in send_buffer
Delivered(f, c, seg) ==
    LET got == svc_written[f] \o c.send_buffer
    IN \E i \in 1..Len(got) :
          /\ i + seg.len - 1 <= Len(got)
          /\ SubSeq(got, i, i + seg.len - 1) = Bytes(seg.seq, seg.len)

\* C16: a data segment whose bytes have all been taken in sequence before
\* leaves rcv_nxt as it is, is answered by one ACK carrying rcv_nxt, and
\* none of its bytes is written or buffered again.
C16_DuplicateData ==
    [][(TcpStep /\ session = "running" /\ BothOpened(ppp)) =>
          LET seg == rx'
              f   == seg.flow
              c   == connections[f]
              c2  == connections'[f]
          IN (/\ c # NoConn
              /\ c.state \in {"ESTABLISHED", "CLOSE_WAIT"}
              /\ seg.len > 0
              /\ seg.flags = {"ACK"}
              /\ seg.seq + seg.len <= c.rcv_nxt
              /\ Delivered(f, c, seg)) =>
                 /\ c2.rcv_nxt = c.rcv_nxt
                 /\ out' = << TcpOut(f, c.snd_nxt, c.rcv_nxt, {"ACK"}, << >>) >>
                 /\ svc_written'[f] = svc_written[f]
                 /\ c2.send_buffer = c.send_buffer]_vars

\* C17: in ESTABLISHED, the data segment that fills the gap before the first
\* queued out-of-order segment drains it: rcv_nxt moves to the end of the
\* queued segment, the queue loses it, the bytes of both segments are
\* delivered once and in order, and the ACK sent carries that rcv_nxt.
C17_DrainOnGapFill ==
    [][(TcpStep /\ session = "running" /\ BothOpened(ppp)) =>
          LET seg == rx'
              f   == seg.flow
              c   == connections[f]
              c2  == connections'[f]
          IN (/\ c # NoConn
              /\ c.state = "ESTABLISHED"
              /\ seg.len > 0
              /\ seg.flags = {"ACK"}
              /\ seg.ack <= c.snd_nxt
              /\ seg.seq = c.rcv_nxt
              /\ c.out_of_order_queue # << >>
              /\ Head(c.out_of_order_queue).seq_start = seg.seq + seg.len) =>
                 LET end == Head(c.out_of_order_queue).seq_end
                 IN /\ c2.rcv_nxt = end
                    /\ c2.out_of_order_queue = Tail(c.out_of_order_queue)
                    /\ svc_written'[f] \o c2.send_buffer
                          = (svc_written[f] \o c.send_buffer)
                               \o Bytes(seg.seq, end - seg.seq)
                    /\ out' = << TcpOut(f, c.snd_nxt, end, {"ACK"}, << >>) >>]_vars

\* C18: no connection holds in its out-of-order queue a segment that starts
\* below rcv_nxt.
C18_NoStaleSegments ==
    \A f \in Flows :
        connections[f] # NoConn =>
            \A i \in 1..Len(connections[f].out_of_order_queue) :
                connections[f].out_of_order_queue[i].seq_start
                    >= connections[f].rcv_nxt

\* C19: when the read from the service socket of an ESTABLISHED connection
\* returns end of file, a FIN is sent to the peer and the connection enters
\* FIN_WAIT_1.
C19_ServiceEofTeardown ==
    [][\A f \in Flows :
          (/\ ev' = "service_eof"
           /\ service_tasks[f] = "reading"
           /\ service_tasks'[f] = "none"
           /\ connections[f].state = "ESTABLISHED") =>
              /\ connections'[f].state = "FIN_WAIT_1"
              /\ \E i \in 1..Len(out') :
                    out'[i].flow = f /\ "FIN" \in out'[i].flags]_vars

\* C20: the connection table holds no entry in CLOSED.
C20_ClosedEntriesRemoved ==
    \A f \in Flows :
        connections[f] # NoConn => connections[f].state # "CLOSED"

\* C21: when the first in-order data arrives on an ESTABLISHED connection
\* that has no service socket (the service could not be reached), either a
\* socket is opened now or the connection is aborted: an RST goes to the
\* peer, the connection is CLOSED and no socket or task of the flow is left.
C21_AbortOnConnectFailure ==
    [][\A f \in Flows :
          (/\ TcpStep
           /\ rx'.flow = f
           /\ connections[f] # NoConn
           /\ connections[f].state = "ESTABLISHED"
           /\ connections[f].local_sock = "none"
           /\ ~pending[f]
           /\ rx'.len > 0
           /\ rx'.seq = connections[f].rcv_nxt
           /\ "RST" \notin rx'.flags
           /\ rx'.ack <= connections[f].snd_nxt)
          => \/ connections'[f].local_sock = "open"
             \/ /\ connections'[f].state = "CLOSED"
                /\ \E i \in 1..Len(out') :
                      out'[i].flow = f /\ "RST" \in out'[i].flags
                /\ service_tasks'[f] = "none"
                /\ hc_tasks'[f] = 0]_vars

\* C22: a segment whose IP header checksum or TCP checksum is wrong is
\* dropped silently: no connection entry is created or changed, nothing is
\* written to a service socket and no segment is sent in reply.
C22_BadChecksumDropped ==
    [][(/\ ev' = "frame"
        /\ rx'.proto = PPP_IP
        /\ rx'.checksum # "valid")
       => /\ connections' = connections
          /\ svc_written' = svc_written
          /\ out' = << >>]_vars

\* C23: when the stream on the line is frame_data(P1) .. frame_data(Pn) for
\* non-empty payloads of arbitrary octets, the decoder, started in its
\* initial state and given the stream in chunks of any sizes, has returned
\* exactly P1 .. Pn, in order, once the whole stream is in.
C23_RoundTrip ==
    (wire = WireOf(payloads) /\ fed = Len(wire)) => frames = payloads

\* two frames, with a flag octet and an escape octet in the payloads, fed in
\* three or more chunks
C23_Witness ==
    /\ wire = WireOf(payloads)
    /\ fed = Len(wire)
    /\ calls >= 3
    /\ Len(payloads) = 2
    /\ \E i \in 1..Len(payloads[1]) : payloads[1][i] = PPP_FLAG
    /\ \E i \in 1..Len(payloads[2]) : payloads[2][i] = PPP_ESCAPE
    /\ frames = payloads

\* the number of octets of w equal to b
Count(w, b) == Cardinality({i \in 1..Len(w) : w[i] = b})

\* payload octets that frame_data has to escape
RECURSIVE Specials(_)
Specials(ps) ==
    IF ps = << >> THEN 0
    ELSE Count(Head(ps), PPP_FLAG) + Count(Head(ps), PPP_ESCAPE)
         + Specials(Tail(ps))

\* w has a run of exactly n flag octets at i with frame octets on both sides
GapAt(w, i, n) ==
    /\ i > 1
    /\ i + n <= Len(w)
    /\ w[i - 1] # PPP_FLAG
    /\ \A j \in i..(i + n - 1) : w[j] = PPP_FLAG
    /\ w[i + n] # PPP_FLAG

\* inside the frames the only flag octets are the delimiters, and every
\* escape octet is one frame_data put in front of an escaped octet
NothingUnescaped(flags) ==
    /\ Count(wire, PPP_FLAG) = flags
    /\ Count(wire, PPP_ESCAPE) = Specials(payloads)
    /\ \A i \in 1..Len(wire) :
          wire[i] = PPP_ESCAPE =>
             /\ i < Len(wire)
             /\ wire[i + 1] \in {Xor20(PPP_FLAG), Xor20(PPP_ESCAPE)}

\* C24 as stated: on the line two consecutive frames are separated by exactly
\* one flag octet, and no flag or escape octet is unescaped inside a frame.
C24_SingleFlag ==
    wire = WireOf(payloads) =>
        /\ \A i \in 1..Len(wire), n \in 1..Len(wire) :
              GapAt(wire, i, n) => n = 1
        /\ NothingUnescaped(IF payloads = << >> THEN 0 ELSE Len(payloads) + 1)

\* C24 as the code has it: every frame carries its own opening and closing
\* flag, so two consecutive frames are separated by exactly two flag octets;
\* no flag or escape octet is unescaped inside a frame.
C24_Framing ==
    wire = WireOf(payloads) =>
        /\ \A i \in 1..Len(wire), n \in 1..Len(wire) :
              GapAt(wire, i, n) => n = 2
        /\ NothingUnescaped(2 * Len(payloads))

\* two frames on the line, the first ending in a flag octet that had to be
\* escaped, the second starting with an escape octet
C24_Witness ==
    /\ wire = WireOf(payloads)
    /\ Len(payloads) = 2
    /\ payloads[1][Len(payloads[1])] = PPP_FLAG
    /\ payloads[2][1] = PPP_ESCAPE
    /\ \E i \in 1..Len(wire) : GapAt(wire, i, 2)

\* C25: a frame cut short by a malformed escape (escape octet, then flag) is
\* not returned as a frame, and the well-formed frames behind it are.
C25_MalformedEscape ==
    \A b \in BadBodies :
        (wire = Malformed(b) \o WireOf(payloads) /\ fed = Len(wire))
            => frames = payloads

\* the proxy of the flow is torn down
TornDown ==
    /\ pconn._shutdown_event
    /\ ptask.p2s \in Stopped
    /\ ptask.s2p \in Stopped
    /\ svc.sock = "closed"
    /\ FlowA \notin active_connections

C27_SessionEndCleanup ==
    [][(session = "running" /\ session' = "closed" /\ ev' = "close")
       => \A f \in Flows :
             (connections[f] # NoConn /\ connections[f].state = "ESTABLISHED")
             => /\ \E i \in 1..Len(out') :
                      out'[i].flow = f /\ "RST" \in out'[i].flags
                /\ LiveSockets(f)' = 0
                /\ service_tasks'[f] = "none"
                /\ hc_tasks'[f] = 0]_vars

\* the SYN segments, and the data segments, the forwarder has written
SynsSent == {i \in DOMAIN fsent : "SYN" \in fsent[i].flags}
DataSent == {i \in DOMAIN fsent : fsent[i].data # << >>}

\* C28: a forwarded flow whose SYN has not been answered after the initial
\* retransmission timeout has had its SYN sent again, and an unanswered flow
\* is given up only when the SYN has been retransmitted max_retransmit_count
\* times.
C28_SynRetransmitted ==
    (fconn # NoConn /\ fconn.state = "SYN_SENT")
    => /\ ftask.waited > InitialRTO => Cardinality(SynsSent) >= 2
       /\ ftask.conn = "done"
          => Cardinality(SynsSent) >= 1 + max_retransmit_count

\* C29: no data segment of a forwarded flow is written before ESTABLISHED,
\* no two data segments cover a common sequence number, and a segment with
\* the lower sequence number carries the octets the client wrote earlier.
C29_OrderedNoOverlap ==
    /\ (fconn # NoConn /\ fconn.state \in {"INIT", "SYN_SENT"})
       => DataSent = {}
    /\ \A i, j \in DataSent :
          i # j =>
             \/ /\ fsent[i].seq + Len(fsent[i].data) <= fsent[j].seq
                /\ \A a \in 1..Len(fsent[i].data), b \in 1..Len(fsent[j].data) :
                      fsent[i].data[a] < fsent[j].data[b]
             \/ /\ fsent[j].seq + Len(fsent[j].data) <= fsent[i].seq
                /\ \A a \in 1..Len(fsent[i].data), b \in 1..Len(fsent[j].data) :
                      fsent[j].data[b] < fsent[i].data[a]

\* C31: every live forwarded connection has a synthetic port of the pool, no
\* two live connections have the same port, and the table entry of a live
\* connection's port is that connection.
C31_ExclusivePort ==
    \A c \in FwdClients :
       handlers[c] # 0
       => /\ handlers[c] \in PoolFirst..PoolLast
          /\ \A d \in FwdClients \ {c} : handlers[d] # handlers[c]
          /\ handlers[c] \in DOMAIN fwd_connections
          /\ fwd_connections[handlers[c]] = c

\* the step just taken was serial_reader handing a control packet of the
\* protocol and code to the negotiator
CtlStep(proto, code) ==
    ev' = "frame" /\ rx'.proto = proto /\ rx'.code = code

\* the option types the negotiator answers with Configure-Reject
Rejected(proto, opt) ==
    IF proto = PPP_LCP
    THEN opt.type \notin {LCP_MAGIC_NUMBER, LCP_MRU,
                          LCP_ADDR_CONTROL_COMPRESSION,
                          LCP_PROTOCOL_COMPRESSION}
    ELSE opt.type # IPCP_IP_ADDRESS

Advanced(st) == st \in {"ACK_SENT", "OPENED"}

\* C32: a Configure-Request with an option that is answered with Reject gets
\* a Configure-Reject, whatever else it carries and in whatever order; it
\* gets no Configure-Ack and moves the protocol neither to ACK_SENT nor to
\* OPENED.
C32_RejectWins ==
    [][\A proto \in {PPP_LCP, PPP_IPCP} :
          (/\ CtlStep(proto, CONFIGURE_REQUEST)
           /\ proto = PPP_IPCP => is_lcp_opened(ppp)
           /\ \E i \in DOMAIN rx'.data : Rejected(proto, rx'.data[i]))
          => /\ \E i \in DOMAIN out' :
                   /\ out'[i].proto = proto
                   /\ out'[i].code = CONFIGURE_REJECT
                   /\ out'[i].id = rx'.id
             /\ \A i \in DOMAIN out' : out'[i].code # CONFIGURE_ACK
             /\ Advanced(ppp'.lcp_state) => ppp'.lcp_state = ppp.lcp_state
             /\ Advanced(ppp'.ipcp_state) => ppp'.ipcp_state = ppp.ipcp_state
      ]_vars

\* C33: a Configure-Request sent in answer to a Configure-Reject of our
\* outstanding request has a new identifier and none of the options the
\* Reject names.
C33_RejectedOptionsDropped ==
    [][\A proto \in {PPP_LCP, PPP_IPCP} :
          (/\ CtlStep(proto, CONFIGURE_REJECT)
           /\ is_lcp_opened(ppp)
           /\ Awaits(ppp, <<IF proto = PPP_LCP THEN "lcp" ELSE "ipcp",
                            rx'.id>>))
          => \A i \in DOMAIN out' :
                (out'[i].proto = proto /\ out'[i].code = CONFIGURE_REQUEST)
                => /\ out'[i].id # rx'.id
                   /\ \A j \in DOMAIN out'[i].data, k \in DOMAIN rx'.data :
                         out'[i].data[j].type # rx'.data[k].type
      ]_vars

\* C34: in the step in which LCP becomes OPENED an IPCP Configure-Request is
\* sent and IPCP leaves INITIAL.
C34_IpcpStartsWithLcp ==
    [][(~is_lcp_opened(ppp) /\ is_lcp_opened(ppp'))
       => /\ \E i \in DOMAIN out' :
                out'[i].proto = PPP_IPCP /\ out'[i].code = CONFIGURE_REQUEST
          /\ ppp'.ipcp_state # "INITIAL"
      ]_vars

\* C39: whenever IPCP is OPENED, LCP is OPENED.
C39_IpcpOpenedWithinLcp == is_ipcp_opened(ppp) => is_lcp_opened(ppp)

C36_FastRecovery ==
    [][(ev' = "frame" /\ IsDuplicateAck(connections[FlowA], rx')
          /\ dupacks' = 3)
       => LET cc  == connections[FlowA].congestion_control
              cc2 == connections'[FlowA].congestion_control
          IN /\ cc2.fast_recovery
             /\ cc2.ssthresh = Max2(cc.cwnd \div 2, 2 * cc.mss)
             /\ cc2.cwnd = cc2.ssthresh + 3 * cc.mss
             /\ \E i \in DOMAIN out' :
                   /\ out'[i].data # << >>
                   /\ out'[i].seq <= connections[FlowA].snd_una
      ]_vars

\* C37: a timer callback runs only between the handling of two segments,
\* never while the handling of a segment is suspended at an await.
C37_TimersBetweenSegments ==
    [][ev' = "timers" => handling = NoPacket]_vars

\* The host's connection after the forwarder's SYN (initial sequence number
\* fiss) and then the segment ackseg the forwarder wrote, as
\* process_tcp_segment leaves it
HostAfterHandshake(fiss, ackseg) ==
    LET syn == Seg(FwdFlow, fiss, 0, {"SYN"}, 0)
        c1  == process_tcp_segment(NoConn, syn, PeerISS, StartTime).conn
        a   == Seg(FwdFlow, ackseg.seq, ackseg.ack, ackseg.flags,
                   Len(ackseg.data))
    IN process_tcp_segment(c1, a, PeerISS, StartTime).conn

\* C38: the forwarder's SYN consumes one sequence number: the ACK that
\* answers the server's SYN+ACK carries seq = ISN + 1, and with it the host
\* connection is ESTABLISHED though the client has sent no data.
C38_SynConsumesSequenceNumber ==
    [][(fconn # NoConn /\ fconn.state = "SYN_SENT"
          /\ fconn'.state = "ESTABLISHED")
       => /\ fout' # << >>
          /\ fout'[1].flags = {"ACK"}
          /\ fout'[1].seq = fconn.initial_seq + 1
          /\ HostAfterHandshake(fconn.initial_seq, fout'[1]).state
                = "ESTABLISHED"
      ]_vars

\* sequence numbers a segment occupies
Span(seg) ==
    seg.len + (IF "SYN" \in seg.flags THEN 1 ELSE 0)
            + (IF "FIN" \in seg.flags THEN 1 ELSE 0)

\* C40: sequence arithmetic is modulo 2^32: rcv_nxt and the ack field of
\* every emitted header stay below 2^32, and a SYN or FIN whose sequence
\* range reaches the wrap point is acknowledged like any other.
C40_SequenceWrap ==
    [][(ev' = "frame" /\ rx' # NoPacket)
       => /\ connections'[FlowA] # NoConn
                => connections'[FlowA].rcv_nxt < WrapPoint
          /\ \A i \in DOMAIN out' :
                "ACK" \in out'[i].flags => out'[i].ack < WrapPoint
          /\ (/\ rx'.seq + Span(rx') >= WrapPoint
              /\ \/ connections[FlowA] = NoConn /\ rx'.flags = {"SYN"}
                 \/ /\ connections[FlowA] # NoConn
                    /\ connections[FlowA].state = "ESTABLISHED"
                    /\ "FIN" \in rx'.flags)
             => \E i \in DOMAIN out' : "ACK" \in out'[i].flags
      ]_vars
====
